---- MODULE Spec2Model ----
(***************************************************************************)
(* Model of the window-grid assignment store of window_manager_gui.py      *)
(* (class WindowManagerGUI) and of the OS window table it reads.           *)
(*                                                                         *)
(* WindowInfo objects live in a heap: Python keeps them by reference, so   *)
(* two dictionary slots may hold the SAME object (one assigned_position    *)
(* marker for both) or two DIFFERENT objects describing the same hwnd.     *)
(* A dictionary is a sequence of <<key, value>> pairs in insertion order.  *)
(***************************************************************************)
EXTENDS Integers, Sequences, FiniteSets, TLC

\* ------------------------------------------------------------------ bounds
\* window handles the OS can hand out: 1..MaxHwnd
MaxHwnd == 3
\* the row and column spin boxes go from 1 to 5; the model stops at these
MaxRows == 2
MaxColumns == 3
\* number of handler invocations / OS events explored from start-up
MaxSteps == 4

Hwnds == 1..MaxHwnd

\* ------------------------------------------------------- OS window table
\* GetWindowTextW / GetClassNameW of a handle. Titles are distinct; windows 1
\* and 2 have the same class name (two instances of one program).
TitleOf(h) == h
ClassNameOf(h) == IF h = 2 THEN 1 ELSE h

\* the title and class name of a window that is not in the table
GhostInfo == [title |-> 0, class_name |-> 0]

\* ---------------------------------------------------------------- values
\* WindowInfo.assigned_position = None
None == <<>>

\* self.layout_groups
layout_groups == <<"01-06", "07-12", "13-18", "19-24">>
Groups == {layout_groups[i] : i \in 1..Len(layout_groups)}

\* defaults of self.rows / self.columns
DefaultRows == 2
DefaultColumns == 3

VARIABLES
    rows,               \* self.rows
    columns,            \* self.columns
    layout_group_var,   \* self.layout_group_var
    heap,               \* the WindowInfo objects that are still referenced
    windows,            \* self.windows: sequence of heap indices
    group_assignments,  \* self.group_assignments: group -> dict (cell -> heap index)
    config_file,        \* saving/multiWindows.json, or NoFile
    live,               \* handles EnumWindows currently yields
    last,               \* the handler that ran last, its arguments and what it reported
    steps,              \* number of handlers run so far
    geo,                \* a geometry computation: its inputs, the function applied, its result
    desktop,            \* a window enumeration: the windows EnumWindows yields, the result
    box_vars,           \* self.box_vars: the numbers of the boxes whose check box is set
    sandbox             \* launch_sandboxes / terminate_all_sandboxes: how far the run is, what it reported

vars == <<rows, columns, layout_group_var, heap, windows, group_assignments,
          config_file, live, last, steps, geo, desktop, box_vars, sandbox>>

\* ------------------------------------------------------------ dictionaries
RECURSIVE DictIndex(_, _, _)
DictIndex(d, k, i) ==
    IF i > Len(d) THEN 0
    ELSE IF d[i][1] = k THEN i
    ELSE DictIndex(d, k, i + 1)

\* k in d
DictHas(d, k) == DictIndex(d, k, 1) # 0

\* d[k]
DictGet(d, k) == d[DictIndex(d, k, 1)][2]

\* del d[k]
DictDel(d, k) ==
    LET i == DictIndex(d, k, 1)
    IN  IF i = 0 THEN d
        ELSE SubSeq(d, 1, i - 1) \o SubSeq(d, i + 1, Len(d))

\* d[k] = v : an existing key keeps its place, a new key goes last
DictSet(d, k, v) ==
    LET i == DictIndex(d, k, 1)
    IN  IF i = 0 THEN Append(d, <<k, v>>)
        ELSE [d EXCEPT ![i] = <<k, v>>]

DictKeys(d) == {d[i][1] : i \in 1..Len(d)}

\* ------------------------------------------------------------------- heap
\* WindowInfo(hwnd, title, class_name)
WindowInfo(h, t, k) ==
    [hwnd |-> h, title |-> t, class_name |-> k, assigned_position |-> None]

\* self.get_current_assignments()
get_current_assignments == group_assignments[layout_group_var]

\* the buttons update_grid creates: one per (r, c) of the current grid
GridCells(rs, cs) == (0..(rs - 1)) \X (0..(cs - 1))

\* ascending sequence of the elements of a set of handles (EnumWindows order)
RECURSIVE SortedSeq(_)
SortedSeq(S) ==
    IF S = {} THEN <<>>
    ELSE LET m == CHOOSE x \in S : \A y \in S : x <= y
         IN  <<m>> \o SortedSeq(S \ {m})

\* get_windows(): one new WindowInfo per enumerated handle
get_windows(lv) ==
    LET hs == SortedSeq(lv)
    IN  [i \in 1..Len(hs) |-> WindowInfo(hs[i], TitleOf(hs[i]), ClassNameOf(hs[i]))]

\* Object references in a fixed order: self.windows first, then every group's
\* dictionary in order. Objects nothing refers to are dropped and the others
\* renumbered in that order (reference identity is all Python can observe).
RECURSIVE GroupRefs(_, _)
GroupRefs(ga, i) ==
    IF i > Len(layout_groups) THEN <<>>
    ELSE [j \in 1..Len(ga[layout_groups[i]]) |-> ga[layout_groups[i]][j][2]]
         \o GroupRefs(ga, i + 1)

RECURSIVE Dedup(_, _)
Dedup(s, seen) ==
    IF s = <<>> THEN <<>>
    ELSE IF Head(s) \in seen THEN Dedup(Tail(s), seen)
    ELSE <<Head(s)>> \o Dedup(Tail(s), seen \cup {Head(s)})

RefOrder(ws, ga) == Dedup(ws \o GroupRefs(ga, 1), {})

NewIndex(order, o) == CHOOSE i \in 1..Len(order) : order[i] = o

CollectHeap(hp, ws, ga) ==
    LET order == RefOrder(ws, ga)
    IN  [i \in 1..Len(order) |-> hp[order[i]]]

CollectWindows(hp, ws, ga) ==
    LET order == RefOrder(ws, ga)
    IN  [i \in 1..Len(ws) |-> NewIndex(order, ws[i])]

CollectAssignments(hp, ws, ga) ==
    LET order == RefOrder(ws, ga)
    IN  [g \in Groups |->
            [j \in 1..Len(ga[g]) |-> <<ga[g][j][1], NewIndex(order, ga[g][j][2])>>]]

\* refresh_windows(): self.windows = self.get_windows(); the old list is dropped
RefreshedHeap(hp, lv) == hp \o get_windows(lv)
RefreshedWindows(hp, lv) == [i \in 1..Cardinality(lv) |-> Len(hp) + i]

\* ------------------------------------------------------------------ views
\* cells of group g that hold a window with handle h
CellsOfHwndIn(hp, ga, g, h) ==
    {ga[g][i][1] : i \in {j \in 1..Len(ga[g]) : hp[ga[g][j][2]].hwnd = h}}

CellsOfHwnd(g, h) == CellsOfHwndIn(heap, group_assignments, g, h)

\* the mapping cell -> hwnd of group g, as a set of pairs
Mapping(g) ==
    {<<group_assignments[g][i][1], heap[group_assignments[g][i][2]].hwnd>> :
        i \in 1..Len(group_assignments[g])}

\* ------------------------------------------------------------ last handler
NoOp == [op |-> "init", source |-> "", hwnd |-> 0, cell |-> None, group |-> "",
         done |-> FALSE, raised |-> FALSE, success_count |-> 0, total |-> 0,
         moved |-> <<>>, failed |-> 0, matched_count |-> 0, bound |-> <<>>,
         entries |-> 0, after_save |-> FALSE, zorder |-> <<>>, activated |-> <<>>,
         candidates |-> <<>>, after_load |-> FALSE]

\* saving/multiWindows.json does not exist
NoFile ==
    [exists |-> FALSE, rows |-> 0, columns |-> 0, has_groups |-> FALSE,
     group_assignments |-> <<>>, assignments |-> <<>>]

\* no geometry computation and no enumeration is being followed
NoGeometry ==
    [prog |-> "", columns |-> 0, rows |-> 0, count |-> 0, use_work_area |-> FALSE,
     force_resolution |-> None, screen_width |-> 0, screen_height |-> 0,
     use_workarea |-> FALSE, h_gap |-> 0, v_gap |-> 0, work_area |-> <<0, 0, 0, 0>>,
     op |-> "", raised |-> "", region |-> None, rects |-> <<>>, positions |-> <<>>,
     found |-> 0, dry_run |-> FALSE, moved |-> <<>>]

NoDesktop ==
    [windows |-> <<>>, op |-> "", hwnd |-> 0, valid |-> FALSE, max_count |-> <<>>,
     result |-> <<>>]

\* ---------------------------------------------------------- decimal strings
Digits == <<"0", "1", "2", "3", "4", "5", "6", "7", "8", "9">>

\* str(n) for n >= 0, as a sequence of characters
RECURSIVE IntToStr(_)
IntToStr(n) ==
    IF n < 10 THEN <<Digits[n + 1]>>
    ELSE IntToStr(n \div 10) \o <<Digits[(n % 10) + 1]>>

\* ------------------------------------------------------------ sandbox boxes
\* the boxes 01..24 are numbered 1..BoxCount, six to a row of check boxes
BoxCount == 24
Boxes == 1..BoxCount

\* f"{n:02d}" as a sequence of characters
Pad2(n) == IF n < 10 THEN <<"0">> \o IntToStr(n) ELSE IntToStr(n)

\* SandboxConfig.__post_init__: enabled_boxes = [box_prefix, box_prefix + 1]
\* with box_prefix "01"; a check box starts set iff its id is in that list
DefaultBoxes == {b \in Boxes : Pad2(b) \in {Pad2(1), Pad2(1 + 1)}}

\* no launch and no terminate has run
NoSandbox ==
    [op |-> "", pc |-> "idle", selected_boxes |-> <<>>, i |-> 1, command |-> <<>>,
     commands |-> <<>>, outcomes |-> <<>>, returncodes |-> <<>>, success_count |-> 0,
     summary |-> None, warned |-> FALSE, reported |-> ""]

\* ------------------------------------------------------------------- Init
\* __init__: empty groups, first group active, 2 x 3 grid, refresh_windows();
\* at start-up every window of the table is open, or every window but the first
Init ==
    /\ rows = DefaultRows
    /\ columns = DefaultColumns
    /\ layout_group_var = layout_groups[1]
    /\ live \in {Hwnds, Hwnds \ {1}}
    /\ heap = get_windows(live)
    /\ windows = [i \in 1..Cardinality(live) |-> i]
    /\ group_assignments = [g \in Groups |-> <<>>]
    /\ config_file = NoFile
    /\ last = NoOp
    /\ steps = 0
    /\ geo = NoGeometry
    /\ desktop = NoDesktop
    /\ box_vars = DefaultBoxes
    /\ sandbox = NoSandbox

\* the store after a handler: garbage dropped, objects renumbered
Commit(hp, ws, ga) ==
    /\ heap' = CollectHeap(hp, ws, ga)
    /\ windows' = CollectWindows(hp, ws, ga)
    /\ group_assignments' = CollectAssignments(hp, ws, ga)

Tick == steps < MaxSteps /\ steps' = steps + 1 /\ UNCHANGED <<geo, desktop, box_vars, sandbox>>

\* ------------------------------------------------------------ OS events
\* a window is closed or minimised: EnumWindows stops yielding it
CloseWindow(h) ==
    /\ Tick
    /\ h \in live
    /\ live' = live \ {h}
    /\ last' = [NoOp EXCEPT !.op = "close", !.hwnd = h]
    /\ UNCHANGED <<rows, columns, layout_group_var, heap, windows,
                   group_assignments, config_file>>

\* a window is opened or restored
OpenWindow(h) ==
    /\ Tick
    /\ h \notin live
    /\ live' = live \cup {h}
    /\ last' = [NoOp EXCEPT !.op = "open", !.hwnd = h]
    /\ UNCHANGED <<rows, columns, layout_group_var, heap, windows,
                   group_assignments, config_file>>

\* ------------------------------------------------------- refresh_windows
RefreshWindows ==
    /\ Tick
    /\ Commit(RefreshedHeap(heap, live), RefreshedWindows(heap, live), group_assignments)
    /\ last' = [NoOp EXCEPT !.op = "refresh"]
    /\ UNCHANGED <<rows, columns, layout_group_var, config_file, live>>

\* ------------------------------------------- assign_window_to_position
\* a store is [heap, windows, ga]; handlers map a store to a store
Store(hp, ws, ga) == [heap |-> hp, windows |-> ws, ga |-> ga]

\* markers of the objects of dictionary d set to their keys, one entry after
\* the other (on_layout_group_change, second loop)
RECURSIVE MarkEntries(_, _, _)
MarkEntries(hp, d, i) ==
    IF i > Len(d) THEN hp
    ELSE MarkEntries([hp EXCEPT ![d[i][2]].assigned_position = d[i][1]], d, i + 1)

\* for w in self.windows: w.assigned_position = None
UnmarkWindows(hp, ws) ==
    [o \in DOMAIN hp |->
        IF o \in {ws[i] : i \in 1..Len(ws)}
        THEN [hp[o] EXCEPT !.assigned_position = None]
        ELSE hp[o]]

\* "remove the window's old assignment": del assignments[window.assigned_position]
RemoveOldAssignment(hp, d, w) ==
    IF hp[w].assigned_position # None /\ DictHas(d, hp[w].assigned_position)
    THEN DictDel(d, hp[w].assigned_position)
    ELSE d

\* "remove the position's old window": old_window.assigned_position = None
EvictOldWindow(hp, d, cell) ==
    IF DictHas(d, cell)
    THEN [hp EXCEPT ![DictGet(d, cell)].assigned_position = None]
    ELSE hp

\* faulty variant: the refresh also drops the entries whose window is gone
Refreshed_Pruning(st, lv) ==
    Store(RefreshedHeap(st.heap, lv), RefreshedWindows(st.heap, lv),
          [g \in Groups |->
              SelectSeq(st.ga[g], LAMBDA e : st.heap[e[2]].hwnd \in lv)])

\* refresh_windows() on a store
Refreshed(st, lv) ==
    Store(RefreshedHeap(st.heap, lv), RefreshedWindows(st.heap, lv), st.ga)

\* faulty variant: the cell is taken from the windows of every group
assign_window_to_position_EveryGroup(st, g, w, cell, lv) ==
    LET d1  == RemoveOldAssignment(st.heap, st.ga[g], w)
        hp1 == EvictOldWindow(st.heap, d1, cell)
        hp2 == [hp1 EXCEPT ![w].assigned_position = cell]
        d2  == DictSet(d1, cell, w)
    IN  Refreshed(Store(hp2, st.windows,
                        [h \in DOMAIN st.ga |->
                            IF h = g THEN d2
                            ELSE IF DictHas(st.ga[h], cell) THEN DictDel(st.ga[h], cell)
                            ELSE st.ga[h]]), lv)

\* assign_window_to_position(window, row, col) with group g active
assign_window_to_position(st, g, w, cell, lv) ==
    LET d1  == RemoveOldAssignment(st.heap, st.ga[g], w)
        hp1 == EvictOldWindow(st.heap, d1, cell)
        hp2 == [hp1 EXCEPT ![w].assigned_position = cell]
        d2  == DictSet(d1, cell, w)
    IN  Refreshed(Store(hp2, st.windows, [st.ga EXCEPT ![g] = d2]), lv)

\* remove_window_assignment(window) with group g active
remove_window_assignment(st, g, w, lv) ==
    IF st.heap[w].assigned_position # None
    THEN LET pos == st.heap[w].assigned_position
             d1  == IF DictHas(st.ga[g], pos) THEN DictDel(st.ga[g], pos) ELSE st.ga[g]
             hp1 == [st.heap EXCEPT ![w].assigned_position = None]
         IN  Refreshed(Store(hp1, st.windows, [st.ga EXCEPT ![g] = d1]), lv)
    ELSE st

\* faulty variant: the dictionary of every group is cleared
ClearedAssignments_AllGroups(ga, g) == [x \in Groups |-> <<>>]

\* assignments.clear() of the active group g
ClearedAssignments(ga, g) == [ga EXCEPT ![g] = <<>>]

\* clear_assignments() after the user confirmed
clear_assignments(st, g, lv) ==
    Refreshed(Store(UnmarkWindows(st.heap, st.windows), st.windows,
                    ClearedAssignments(st.ga, g)), lv)

\* faulty variant: the group switched to starts from an empty dictionary
on_layout_group_change_Emptying(st, g, lv) ==
    Refreshed(Store(UnmarkWindows(st.heap, st.windows), st.windows,
                    [st.ga EXCEPT ![g] = <<>>]), lv)

\* on_layout_group_change() with group g active
on_layout_group_change(st, g, lv) ==
    Refreshed(Store(MarkEntries(UnmarkWindows(st.heap, st.windows), st.ga[g], 1),
                    st.windows, st.ga), lv)

Current == Store(heap, windows, group_assignments)

CommitStore(st) == Commit(st.heap, st.windows, st.ga)

\* on_listbox_release (drag onto a grid button) and the "assign" button of
\* select_position_for_window: the window is self.windows[i]
AssignFromList(i, cell) ==
    /\ Tick
    /\ i \in 1..Len(windows)
    /\ cell \in GridCells(rows, columns)
    /\ CommitStore(assign_window_to_position(Current, layout_group_var, windows[i], cell, live))
    /\ last' = [NoOp EXCEPT !.op = "assign", !.hwnd = heap[windows[i]].hwnd,
                            !.cell = cell, !.group = layout_group_var, !.done = TRUE]
    /\ UNCHANGED <<rows, columns, layout_group_var, config_file, live>>

\* self.windows restricted to the windows without a marker (select_window_for_position)
AvailableWindows == SelectSeq(windows, LAMBDA o : heap[o].assigned_position = None)

\* on_grid_click on an empty cell, then the "assign" button of select_window_for_position
AssignFromGrid(cell, j) ==
    /\ Tick
    /\ cell \in GridCells(rows, columns)
    /\ ~DictHas(get_current_assignments, cell)
    /\ j \in 1..Len(AvailableWindows)
    /\ CommitStore(assign_window_to_position(Current, layout_group_var,
                                             AvailableWindows[j], cell, live))
    /\ last' = [NoOp EXCEPT !.op = "assign",
                            !.hwnd = heap[AvailableWindows[j]].hwnd,
                            !.cell = cell, !.group = layout_group_var, !.done = TRUE]
    /\ UNCHANGED <<rows, columns, layout_group_var, config_file, live>>

\* the "remove" button of select_position_for_window on self.windows[i]
RemoveFromList(i) ==
    /\ Tick
    /\ i \in 1..Len(windows)
    /\ CommitStore(remove_window_assignment(Current, layout_group_var, windows[i], live))
    /\ last' = [NoOp EXCEPT !.op = "remove", !.source = "list", !.hwnd = heap[windows[i]].hwnd,
                            !.group = layout_group_var,
                            !.done = (heap[windows[i]].assigned_position # None)]
    /\ UNCHANGED <<rows, columns, layout_group_var, config_file, live>>

\* on_grid_click on an occupied cell, removal confirmed
RemoveFromGrid(cell) ==
    /\ Tick
    /\ cell \in GridCells(rows, columns)
    /\ DictHas(get_current_assignments, cell)
    /\ LET w == DictGet(get_current_assignments, cell)
       IN  /\ CommitStore(remove_window_assignment(Current, layout_group_var, w, live))
           /\ last' = [NoOp EXCEPT !.op = "remove", !.source = "grid", !.hwnd = heap[w].hwnd,
                                   !.cell = cell, !.group = layout_group_var,
                                   !.done = (heap[w].assigned_position # None)]
    /\ UNCHANGED <<rows, columns, layout_group_var, config_file, live>>

\* clear_assignments, confirmed in the message box
ClearAssignments ==
    /\ Tick
    /\ CommitStore(clear_assignments(Current, layout_group_var, live))
    /\ last' = [NoOp EXCEPT !.op = "clear", !.group = layout_group_var, !.done = TRUE,
                            !.entries = Len(get_current_assignments)]
    /\ UNCHANGED <<rows, columns, layout_group_var, config_file, live>>

\* the group OptionMenu: layout_group_var.set(g), then on_layout_group_change
SelectLayoutGroup(g) ==
    /\ Tick
    /\ layout_group_var' = g
    /\ CommitStore(on_layout_group_change(Current, g, live))
    /\ last' = [NoOp EXCEPT !.op = "switch", !.group = g, !.done = TRUE]
    /\ UNCHANGED <<rows, columns, config_file, live>>

\* an arrow of the rows or columns spin box, then update_grid: the buttons are
\* rebuilt for the new grid, the dictionaries are not touched
UpdateGrid(r, c) ==
    /\ Tick
    /\ r \in 1..MaxRows /\ c \in 1..MaxColumns
    /\ \/ (c = columns /\ (r = rows + 1 \/ r = rows - 1))
       \/ (r = rows /\ (c = columns + 1 \/ c = columns - 1))
    /\ rows' = r
    /\ columns' = c
    /\ last' = [NoOp EXCEPT !.op = "grid", !.done = TRUE]
    /\ UNCHANGED <<layout_group_var, heap, windows, group_assignments, config_file, live>>

\* ---------------------------------------------------------- apply_layout
\* keys of the dictionary calculate_positions returns: range(rows) x range(cols)
PositionKeys(rs, cs) == GridCells(rs, cs)

\* ShowWindow / SetWindowPos return FALSE for a handle that is no window any
\* more; ctypes hands the value back and raises nothing
SetWindowPos(h, lv) == h \in lv

\* The loop of apply_layout over the items of d from entry i on.
\* positions[(row, col)] is looked up before the try block: a key that is not
\* in the grid raises KeyError out of the handler. Inside the try block the
\* two platform calls are made and success_count is incremented.
RECURSIVE ApplyLoop(_, _, _, _, _)
ApplyLoop(hp, d, i, keys, acc) ==
    IF i > Len(d) THEN acc
    ELSE IF d[i][1] \notin keys THEN [acc EXCEPT !.raised = TRUE]
    ELSE ApplyLoop(hp, d, i + 1, keys,
                   [acc EXCEPT !.moved = Append(@, hp[d[i][2]].hwnd),
                               !.success_count = @ + 1])

\* flags of SetWindowPos and the handle apply_layout passes as hWndInsertAfter
SWP_NOZORDER == 4
SWP_NOACTIVATE == 16
SWP_SHOWWINDOW == 64
SWP_NOOWNERZORDER == 512
HWND_TOP == 0

HasFlag(flags, bit) == (flags \div bit) % 2 = 1

\* uFlags of the SetWindowPos call of apply_layout
ApplyLayoutFlags == SWP_SHOWWINDOW

\* uFlags of the SetWindowPos call of move_resize_window (an or of distinct bits)
MoveResizeFlags == SWP_NOZORDER + SWP_NOACTIVATE + SWP_NOOWNERZORDER

\* SetWindowPos(hwnd, insert_after, ..., flags) on the desktop os = [zorder,
\* activated]: zorder lists the windows from the top, activated the windows
\* that were given the focus. Without SWP_NOACTIVATE the window is activated
\* and brought to the top; without SWP_NOZORDER it is placed after
\* insert_after, HWND_TOP being the top. A handle that is no window fails.
SetWindowPosOn(os, hwnd, insert_after, flags) ==
    LET there  == \E k \in 1..Len(os.zorder) : os.zorder[k] = hwnd
        rest   == SelectSeq(os.zorder, LAMBDA x : x # hwnd)
        to_top == ~HasFlag(flags, SWP_NOACTIVATE)
                  \/ (~HasFlag(flags, SWP_NOZORDER) /\ insert_after = HWND_TOP)
    IN  IF ~there THEN os
        ELSE [zorder    |-> IF to_top THEN <<hwnd>> \o rest ELSE os.zorder,
              activated |-> IF HasFlag(flags, SWP_NOACTIVATE) THEN os.activated
                            ELSE Append(os.activated, hwnd)]

\* the desktop after the SetWindowPos calls of a batch, one after the other
RECURSIVE DesktopAfter(_, _, _, _, _)
DesktopAfter(os, moved, i, insert_after, flags) ==
    IF i > Len(moved) THEN os
    ELSE DesktopAfter(SetWindowPosOn(os, moved[i], insert_after, flags), moved, i + 1,
                      insert_after, flags)

\* platform calls of a batch that the OS answered with failure
FailedMoves(moved, lv) == Cardinality({i \in 1..Len(moved) : ~SetWindowPos(moved[i], lv)})

\* faulty variant: the entries of windows that are gone are dropped first
ApplyLayout_Pruning ==
    /\ Tick
    /\ CommitStore(Store(heap, windows,
                         [g \in Groups |->
                             SelectSeq(group_assignments[g],
                                       LAMBDA e : heap[e[2]].hwnd \in live)]))
    /\ last' = [NoOp EXCEPT !.op = "apply", !.group = layout_group_var]
    /\ UNCHANGED <<rows, columns, layout_group_var, config_file, live>>

\* apply_layout: reports "success_count / len(assignments)" unless it raised
ApplyLayout ==
    /\ Tick
    /\ LET d   == get_current_assignments
           res == ApplyLoop(heap, d, 1, PositionKeys(rows, columns),
                            [raised |-> FALSE, moved |-> <<>>, success_count |-> 0])
           os  == DesktopAfter([zorder |-> SortedSeq(live), activated |-> <<>>],
                               res.moved, 1, HWND_TOP, ApplyLayoutFlags)
       IN  last' = IF d = <<>>
                   THEN [NoOp EXCEPT !.op = "apply", !.group = layout_group_var]
                   ELSE [NoOp EXCEPT !.op = "apply", !.group = layout_group_var,
                                     !.done = ~res.raised, !.raised = res.raised,
                                     !.success_count = res.success_count,
                                     !.total = Len(d), !.moved = res.moved,
                                     !.failed = FailedMoves(res.moved, live),
                                     !.zorder = os.zorder, !.activated = os.activated]
    /\ UNCHANGED <<rows, columns, layout_group_var, heap, windows, group_assignments,
                   config_file, live>>

\* preview_layout: the text of the message box is built from the positions of
\* the cells of the active group; nothing is moved
PreviewLayout ==
    /\ Tick
    /\ LET d   == get_current_assignments
           res == ApplyLoop(heap, d, 1, PositionKeys(rows, columns),
                            [raised |-> FALSE, moved |-> <<>>, success_count |-> 0])
       IN  last' = IF d = <<>>
                   THEN [NoOp EXCEPT !.op = "preview", !.group = layout_group_var]
                   ELSE [NoOp EXCEPT !.op = "preview", !.group = layout_group_var,
                                     !.done = ~res.raised, !.raised = res.raised,
                                     !.total = Len(d)]
    /\ UNCHANGED <<rows, columns, layout_group_var, heap, windows, group_assignments,
                   config_file, live>>

\* ------------------------------------------------------------ config codec
DigitValue(ch) == (CHOOSE i \in 1..10 : Digits[i] = ch) - 1

\* int(s) for a sequence of digits
RECURSIVE StrToInt(_)
StrToInt(s) ==
    IF Len(s) = 1 THEN DigitValue(s[1])
    ELSE 10 * StrToInt(SubSeq(s, 1, Len(s) - 1)) + DigitValue(s[Len(s)])

\* faulty variant: the key written column first, f"{col},{row}"
PosStr_ColRow(cell) == IntToStr(cell[2]) \o <<",">> \o IntToStr(cell[1])

\* f"{row},{col}"
PosStr(cell) == IntToStr(cell[1]) \o <<",">> \o IntToStr(cell[2])

\* row, col = map(int, pos_str.split(','))
ParsePos(s) ==
    LET k == CHOOSE i \in 1..Len(s) : s[i] = ","
    IN  <<StrToInt(SubSeq(s, 1, k - 1)), StrToInt(SubSeq(s, k + 1, Len(s)))>>

\* one group's dictionary as save_config writes it: "row,col" -> {title, class_name}
GroupData(hp, d) ==
    [i \in 1..Len(d) |->
        <<PosStr(d[i][1]), [title |-> hp[d[i][2]].title,
                            class_name |-> hp[d[i][2]].class_name]>>]

\* faulty variant: only the active group is written, the others are empty
SavedConfig_ActiveGroupOnly(hp, ga, g, rs, cs) ==
    [exists |-> TRUE, rows |-> rs, columns |-> cs, has_groups |-> TRUE,
     group_assignments |->
        [i \in 1..Len(layout_groups) |->
            <<layout_groups[i],
              IF layout_groups[i] = g THEN GroupData(hp, ga[g]) ELSE <<>> >>],
     assignments |-> GroupData(hp, ga[g])]

\* the record save_config dumps
SavedConfig(hp, ga, g, rs, cs) ==
    [exists |-> TRUE, rows |-> rs, columns |-> cs, has_groups |-> TRUE,
     group_assignments |->
        [i \in 1..Len(layout_groups) |->
            <<layout_groups[i], GroupData(hp, ga[layout_groups[i]])>>],
     assignments |-> GroupData(hp, ga[g])]

\* a record of the version before layout groups: no 'group_assignments' key
LegacyConfig(entries) ==
    [exists |-> TRUE, rows |-> DefaultRows, columns |-> DefaultColumns,
     has_groups |-> FALSE, group_assignments |-> <<>>, assignments |-> entries]

\* number of entries of all groups of a grouped record
RECURSIVE CountEntries(_, _)
CountEntries(gs, i) ==
    IF i > Len(gs) THEN 0 ELSE Len(gs[i][2]) + CountEntries(gs, i + 1)

\* save_config: nothing is written while every group is empty
SaveConfig ==
    /\ Tick
    /\ LET any == \E g \in Groups : group_assignments[g] # <<>>
           cfg == SavedConfig(heap, group_assignments, layout_group_var, rows, columns)
       IN  /\ config_file' = IF any THEN cfg ELSE config_file
           /\ last' = [NoOp EXCEPT !.op = "save", !.group = layout_group_var, !.done = any,
                                   !.entries = IF any THEN CountEntries(cfg.group_assignments, 1)
                                               ELSE 0]
    /\ UNCHANGED <<rows, columns, layout_group_var, heap, windows, group_assignments, live>>

\* window.title == title or window.class_name == class_name
Matches(o, info) == o.title = info.title \/ o.class_name = info.class_name

\* for window in self.windows: if match: ...; break  -- index of the first match, or 0
RECURSIVE FirstMatch(_, _, _, _)
FirstMatch(hp, ws, info, i) ==
    IF i > Len(ws) THEN 0
    ELSE IF Matches(hp[ws[i]], info) THEN i
    ELSE FirstMatch(hp, ws, info, i + 1)

\* grouped format, the entries of one group from entry i on:
\* self.group_assignments[g][(row, col)] = window; matched_count += 1
RECURSIVE LoadGroupEntries(_, _, _, _, _)
LoadGroupEntries(hp, ws, entries, i, acc) ==
    IF i > Len(entries) THEN acc
    ELSE LET m == FirstMatch(hp, ws, entries[i][2], 1)
         IN  LoadGroupEntries(hp, ws, entries, i + 1,
                IF m = 0 THEN acc
                ELSE [dict |-> DictSet(acc.dict, ParsePos(entries[i][1]), ws[m]),
                      bound |-> Append(acc.bound, hp[ws[m]].hwnd)])

\* grouped format, the groups of the record from group i on
RECURSIVE LoadGroups(_, _, _, _, _)
LoadGroups(hp, ws, gs, i, acc) ==
    IF i > Len(gs) THEN acc
    ELSE IF gs[i][1] \notin Groups THEN LoadGroups(hp, ws, gs, i + 1, acc)
    ELSE LET r == LoadGroupEntries(hp, ws, gs[i][2], 1,
                                   [dict |-> acc.ga[gs[i][1]], bound |-> acc.bound])
         IN  LoadGroups(hp, ws, gs, i + 1,
                        [ga |-> [acc.ga EXCEPT ![gs[i][1]] = r.dict], bound |-> r.bound])

\* legacy format, one entry: every window of the list that matches is assigned
\* to the cell, one after the other (the loop has no break); ws0 is the list
\* the loop iterates, which assign_window_to_position replaces meanwhile
RECURSIVE LegacyWindowLoop(_, _, _, _, _, _, _)
LegacyWindowLoop(acc, ws0, j, entry, g, lv, cell) ==
    IF j > Len(ws0) THEN acc
    ELSE IF Matches(acc.st.heap[ws0[j]], entry[2])
    THEN LegacyWindowLoop(
            [st |-> assign_window_to_position(acc.st, g, ws0[j], cell, lv),
             bound |-> Append(acc.bound, acc.st.heap[ws0[j]].hwnd)],
            ws0, j + 1, entry, g, lv, cell)
    ELSE LegacyWindowLoop(acc, ws0, j + 1, entry, g, lv, cell)

\* legacy format, the entries from entry i on
RECURSIVE LoadLegacy(_, _, _, _, _)
LoadLegacy(acc, entries, i, g, lv) ==
    IF i > Len(entries) THEN acc
    ELSE LoadLegacy(LegacyWindowLoop(acc, acc.st.windows, 1, entries[i], g, lv,
                                     ParsePos(entries[i][1])),
                    entries, i + 1, g, lv)

\* faulty variant: the groups are not emptied before the record is bound
LoadedGrouped_Merging(st, cfg, g, lv) ==
    LET r == LoadGroups(st.heap, st.windows, cfg.group_assignments, 1,
                        [ga |-> st.ga, bound |-> <<>>])
    IN  [st |-> on_layout_group_change(Store(st.heap, st.windows, r.ga), g, lv),
         bound |-> r.bound]

\* the store and the bound windows after load_config read record cfg
LoadedGrouped(st, cfg, g, lv) ==
    LET r == LoadGroups(st.heap, st.windows, cfg.group_assignments, 1,
                        [ga |-> [x \in Groups |-> <<>>], bound |-> <<>>])
    IN  [st |-> on_layout_group_change(Store(st.heap, st.windows, r.ga), g, lv),
         bound |-> r.bound]

\* faulty variant: the legacy branch empties every group before it binds
LoadedLegacy_EveryGroupCleared(st, cfg, g, lv) ==
    LoadLegacy([st |-> Store(st.heap, st.windows, [x \in Groups |-> <<>>]),
                bound |-> <<>>],
               cfg.assignments, 1, g, lv)

LoadedLegacy(st, cfg, g, lv) ==
    LoadLegacy([st |-> Store(st.heap, st.windows, ClearedAssignments(st.ga, g)),
                bound |-> <<>>],
               cfg.assignments, 1, g, lv)

\* load_config
LoadConfig ==
    /\ Tick
    /\ IF ~config_file.exists
       THEN /\ last' = [NoOp EXCEPT !.op = "load", !.group = layout_group_var]
            /\ UNCHANGED <<rows, columns, heap, windows, group_assignments>>
       ELSE LET r == IF config_file.has_groups
                     THEN LoadedGrouped(Current, config_file, layout_group_var, live)
                     ELSE LoadedLegacy(Current, config_file, layout_group_var, live)
            IN  /\ rows' = config_file.rows
                /\ columns' = config_file.columns
                /\ CommitStore(r.st)
                /\ last' = [NoOp EXCEPT !.op = "load", !.group = layout_group_var,
                                        !.done = TRUE,
                                        !.after_save = (last.op = "save" /\ last.done),
                                        !.after_load = (last.op = "load" /\ last.done),
                                        !.candidates = [k \in 1..Len(windows) |->
                                                            heap[windows[k]].hwnd],
                                        !.source = IF config_file.has_groups
                                                   THEN "grouped" ELSE "legacy",
                                        !.matched_count = Len(r.bound),
                                        !.bound = r.bound,
                                        !.entries =
                                            IF config_file.has_groups
                                            THEN CountEntries(config_file.group_assignments, 1)
                                            ELSE Len(config_file.assignments)]
    /\ UNCHANGED <<layout_group_var, config_file, live>>

\* records of the earlier single-layout version that may lie in saving/:
\* one entry for cell (0, 0) naming one of the windows, and one with a second
\* entry that names a window that does not exist
LegacyConfigs ==
    {LegacyConfig(<< <<PosStr(<<0, 0>>), [title |-> TitleOf(h), class_name |-> ClassNameOf(h)]>> >>)
        : h \in Hwnds}
    \cup
    {LegacyConfig(<< <<PosStr(<<0, 0>>), [title |-> TitleOf(1), class_name |-> ClassNameOf(1)]>>,
                     <<PosStr(<<0, 1>>), GhostInfo>> >>)}

\* the user puts a configuration file of the earlier version in place
RestoreLegacyConfig(cfg) ==
    /\ Tick
    /\ cfg \in LegacyConfigs
    /\ config_file' = cfg
    /\ last' = [NoOp EXCEPT !.op = "restore"]
    /\ UNCHANGED <<rows, columns, layout_group_var, heap, windows, group_assignments, live>>

AllCells == GridCells(MaxRows, MaxColumns)

Next ==
    \/ \E h \in Hwnds : CloseWindow(h)
    \/ \E h \in Hwnds : OpenWindow(h)
    \/ RefreshWindows
    \/ \E i \in 1..MaxHwnd, cell \in AllCells : AssignFromList(i, cell)
    \/ \E cell \in AllCells, j \in 1..MaxHwnd : AssignFromGrid(cell, j)
    \/ \E i \in 1..MaxHwnd : RemoveFromList(i)
    \/ \E cell \in AllCells : RemoveFromGrid(cell)
    \/ ClearAssignments
    \/ \E g \in Groups : SelectLayoutGroup(g)
    \/ \E r \in 1..MaxRows, c \in 1..MaxColumns : UpdateGrid(r, c)
    \/ ApplyLayout
    \/ PreviewLayout
    \/ SaveConfig
    \/ LoadConfig
    \/ \E cfg \in LegacyConfigs : RestoreLegacyConfig(cfg)

Spec == Init /\ [][Next]_vars

\* ============================================================== geometry
\* tile_windows.py (command line) and calculate_positions (GUI) as functions
\* of their inputs. A geometry computation starts from one set of inputs and
\* applies one function to it.
MaxSide == 3
MaxGap == 2

\* widths and heights: small ones around zero and the sizes of real screens
Widths == (-1..MaxSide) \cup {1920, 2561}
Heights == (-1..MaxSide) \cup {1040}
Gaps == (-MaxGap)..MaxGap
RowCounts == -1..MaxRows
ColumnCounts == -1..MaxColumns
Counts == {0, 1, MaxRows * MaxColumns + 1}

\* SPI_GETWORKAREA as <<left, top, right, bottom>>: the task bar at the bottom
\* of a 1920 x 1080 screen, or at the left and top of a very small one
WorkAreas == {<<0, 0, 1920, 1040>>, <<2, 1, 2 + MaxSide, MaxSide>>}

\* GetSystemMetrics(SM_CXSCREEN), GetSystemMetrics(SM_CYSCREEN)
ScreenMetrics == <<1920, 1080>>

\* Python's a // b and a % b for b # 0: the quotient is rounded down and the
\* remainder has the sign of b
FloorDiv(a, b) == IF b > 0 THEN a \div b ELSE (-a) \div (-b)
Mod(a, b) == a - b * FloorDiv(a, b)

min(a, b) == IF a <= b THEN a ELSE b
max(a, b) == IF a >= b THEN a ELSE b

\* list[i] in Python: i counts from 0, a negative i counts from the end
InRange(list, i) == -Len(list) <= i /\ i < Len(list)
At(list, i) == IF i >= 0 THEN list[i + 1] ELSE list[Len(list) + i + 1]

\* ------------------------------------------------- compute_grid_positions
\* faulty variant: the remainder pixels are dropped
Shares_NoRemainder(total, n) ==
    [i \in 1..n |-> FloorDiv(total, n)]

\* [base + (1 if i < rem else 0) for i in range(n)]
Shares(total, n) ==
    [i \in 1..n |-> FloorDiv(total, n) + (IF i - 1 < Mod(total, n) THEN 1 ELSE 0)]

\* faulty variant: the first origin is 0 whatever the offset of the region
RECURSIVE Origins_FromZero(_, _, _)
Origins_FromZero(offset, sizes, n) ==
    IF n <= 1 THEN <<0>>
    ELSE LET before == Origins_FromZero(offset, sizes, n - 1)
         IN  Append(before, before[n - 1] + sizes[n - 1])

\* [offset], then for i in range(1, n): append(previous + sizes[i - 1])
RECURSIVE Origins(_, _, _)
Origins(offset, sizes, n) ==
    IF n <= 1 THEN <<offset>>
    ELSE LET before == Origins(offset, sizes, n - 1)
         IN  Append(before, before[n - 1] + sizes[n - 1])

col_widths(screen_w, cs) == Shares(screen_w, cs)
col_x(offset_x, widths, cs) == Origins(offset_x, widths, cs)
row_heights(screen_h, rs) == Shares(screen_h, rs)
row_y(offset_y, heights, rs) == Origins(offset_y, heights, rs)

\* compute_grid_positions: the rectangles <<x, y, w, h>> of the first `count`
\* cells in row-major order, or the exception raised
compute_grid_positions(screen_w, screen_h, offset_x, offset_y, cs, rs, count) ==
    IF cs = 0 \/ rs = 0
    THEN [raised |-> "ZeroDivisionError", rects |-> <<>>]
    ELSE LET cw == col_widths(screen_w, cs)
             cx == col_x(offset_x, cw, cs)
             rh == row_heights(screen_h, rs)
             ry == row_y(offset_y, rh, rs)
             RECURSIVE loop(_, _)
             loop(idx, rects) ==
                 IF idx >= count THEN [raised |-> "", rects |-> rects]
                 ELSE LET r == FloorDiv(idx, cs)
                          c == Mod(idx, cs)
                      IN  IF r >= rs THEN [raised |-> "", rects |-> rects]
                          ELSE IF ~(InRange(cx, c) /\ InRange(ry, r)
                                    /\ InRange(cw, c) /\ InRange(rh, r))
                          THEN [raised |-> "IndexError", rects |-> <<>>]
                          ELSE loop(idx + 1,
                                    Append(rects, <<At(cx, c), At(ry, r), At(cw, c), At(rh, r)>>))
         IN  loop(0, <<>>)

\* ------------------------------------------------------------ tile_windows
\* get_primary_resolution: <<width, height, offset_x, offset_y>>
get_primary_resolution(use_work_area, work_area) ==
    IF use_work_area
    THEN <<work_area[3] - work_area[1], work_area[4] - work_area[2],
           work_area[1], work_area[2]>>
    ELSE <<ScreenMetrics[1], ScreenMetrics[2], 0, 0>>

\* faulty variant: the work area is preferred to the forced resolution
TileRegion_WorkAreaFirst(force_resolution, use_work_area, work_area) ==
    IF force_resolution # None /\ ~use_work_area
    THEN <<force_resolution[1], force_resolution[2], 0, 0>>
    ELSE get_primary_resolution(use_work_area, work_area)

\* the head of tile_windows: the region that is tiled
TileRegion(force_resolution, use_work_area, work_area) ==
    IF force_resolution # None
    THEN <<force_resolution[1], force_resolution[2], 0, 0>>
    ELSE get_primary_resolution(use_work_area, work_area)

\* faulty variant: the number of cells of the grid is not taken into account
TileCount_IgnoringGrid(count, found_len, cs, rs) == min(count, found_len)

\* n = min(count, len(windows), columns * rows)
TileCount(count, found_len, cs, rs) == min(min(count, found_len), cs * rs)

\* tile_windows when enumerate_windows returned the handles `found`: the
\* windows handed to move_resize_window with their rectangles, in order
tile_windows(cs, rs, count, use_work_area, force_resolution, dry_run, work_area, found) ==
    LET region == TileRegion(force_resolution, use_work_area, work_area)
        n      == TileCount(count, Len(found), cs, rs)
        res    == compute_grid_positions(region[1], region[2], region[3], region[4],
                                         cs, rs, n)
        RECURSIVE loop(_, _)
        loop(i, moved) ==
            IF i >= n THEN [raised |-> "", moved |-> moved]
            ELSE IF ~InRange(res.rects, i) THEN [raised |-> "IndexError", moved |-> moved]
            ELSE loop(i + 1, IF dry_run THEN moved
                             ELSE Append(moved, <<found[i + 1], At(res.rects, i)>>))
    IN  IF found = <<>>
        THEN [raised |-> "", region |-> region, rects |-> <<>>, moved |-> <<>>]
        ELSE IF res.raised # ""
        THEN [raised |-> res.raised, region |-> region, rects |-> <<>>, moved |-> <<>>]
        ELSE [raised |-> loop(0, <<>>).raised, region |-> region, rects |-> res.rects,
              moved |-> loop(0, <<>>).moved]

\* ------------------------------------------------------ calculate_positions
\* faulty variant: the width and height settings are used whatever the box says
GuiRegion_SettingsAlways(use_workarea, work_area, screen_width, screen_height) ==
    <<screen_width, screen_height, 0, 0>>

\* the head of calculate_positions: the region that is tiled
GuiRegion(use_workarea, work_area, screen_width, screen_height) ==
    IF use_workarea
    THEN <<work_area[3] - work_area[1], work_area[4] - work_area[2],
           work_area[1], work_area[2]>>
    ELSE <<screen_width, screen_height, 0, 0>>

\* faulty variant: the remainder pixels go to the last columns and rows
RawCell_RemainderLast(region, rs, cs, row, col) ==
    LET cell_w  == FloorDiv(region[1], cs)
        cell_h  == FloorDiv(region[2], rs)
        extra_w == Mod(region[1], cs)
        extra_h == Mod(region[2], rs)
    IN  <<region[3] + col * cell_w + max(0, col - (cs - extra_w)),
          region[4] + row * cell_h + max(0, row - (rs - extra_h)),
          cell_w + (IF col >= cs - extra_w THEN 1 ELSE 0),
          cell_h + (IF row >= rs - extra_h THEN 1 ELSE 0)>>

\* x, y, w, h of a cell before the gaps are applied
RawCell(region, rs, cs, row, col) ==
    LET cell_w  == FloorDiv(region[1], cs)
        cell_h  == FloorDiv(region[2], rs)
        extra_w == Mod(region[1], cs)
        extra_h == Mod(region[2], rs)
    IN  <<region[3] + col * cell_w + min(col, extra_w),
          region[4] + row * cell_h + min(row, extra_h),
          cell_w + (IF col < extra_w THEN 1 ELSE 0),
          cell_h + (IF row < extra_h THEN 1 ELSE 0)>>

\* faulty variant: half a gap is rounded towards zero
HalfGap_Truncating(gap) == IF gap >= 0 THEN gap \div 2 ELSE -((-gap) \div 2)

\* half_h = h_gap // 2, half_v = v_gap // 2
HalfGap(gap) == FloorDiv(gap, 2)

\* faulty variant: the width and height are not clamped at zero
GapCell_Unclamped(region, rs, cs, h_gap, v_gap, row, col) ==
    LET raw        == RawCell(region, rs, cs, row, col)
        half_h     == HalfGap(h_gap)
        half_v     == HalfGap(v_gap)
        left_off   == IF col > 0 THEN half_h ELSE 0
        right_off  == IF col < cs - 1 THEN half_h ELSE 0
        top_off    == IF row > 0 THEN half_v ELSE 0
        bottom_off == IF row < rs - 1 THEN half_v ELSE 0
    IN  <<raw[1] + left_off, raw[2] + top_off,
          raw[3] - (left_off + right_off),
          raw[4] - (top_off + bottom_off)>>

\* adj_x, adj_y, adj_w, adj_h: half a gap is taken from every inner edge
GapCell(region, rs, cs, h_gap, v_gap, row, col) ==
    LET raw        == RawCell(region, rs, cs, row, col)
        half_h     == HalfGap(h_gap)
        half_v     == HalfGap(v_gap)
        left_off   == IF col > 0 THEN half_h ELSE 0
        right_off  == IF col < cs - 1 THEN half_h ELSE 0
        top_off    == IF row > 0 THEN half_v ELSE 0
        bottom_off == IF row < rs - 1 THEN half_v ELSE 0
    IN  <<raw[1] + left_off, raw[2] + top_off,
          max(0, raw[3] - (left_off + right_off)),
          max(0, raw[4] - (top_off + bottom_off))>>

\* calculate_positions: the dictionary (row, col) -> (x, y, w, h), or the
\* exception raised
calculate_positions(use_workarea, work_area, screen_width, screen_height, rs, cs, h_gap, v_gap) ==
    LET region == GuiRegion(use_workarea, work_area, screen_width, screen_height)
    IN  IF cs = 0 \/ rs = 0
        THEN [raised |-> "ZeroDivisionError", region |-> region, positions |-> <<>>]
        ELSE [raised |-> "", region |-> region,
              positions |-> [cell \in (0..(rs - 1)) \X (0..(cs - 1)) |->
                                GapCell(region, rs, cs, h_gap, v_gap, cell[1], cell[2])]]

\* ------------------------------------------------- geometry computations
\* the settings of the GUI: rows, columns, width, height, work-area box, gaps
GuiInputs ==
    {[NoGeometry EXCEPT !.prog = "gui", !.rows = rs, !.columns = cs,
                        !.screen_width = w, !.screen_height = h, !.use_workarea = u,
                        !.h_gap = hg, !.v_gap = vg, !.work_area = wa] :
        rs \in RowCounts, cs \in ColumnCounts, w \in Widths, h \in Heights,
        u \in BOOLEAN, hg \in Gaps, vg \in Gaps, wa \in WorkAreas}

\* the arguments of the command line: --rows, --columns, --count,
\* --full-screen, --resolution
CliInputs ==
    {[NoGeometry EXCEPT !.prog = "cli", !.rows = rs, !.columns = cs, !.count = n,
                        !.use_work_area = u, !.force_resolution = f, !.work_area = wa] :
        rs \in RowCounts, cs \in ColumnCounts, n \in Counts, u \in BOOLEAN,
        f \in {None} \cup (Widths \X Heights), wa \in WorkAreas}

\* the GUI store is the one of start-up; the inputs are chosen
GeomInit ==
    /\ rows = DefaultRows
    /\ columns = DefaultColumns
    /\ layout_group_var = layout_groups[1]
    /\ live = Hwnds
    /\ heap = get_windows(live)
    /\ windows = [i \in 1..Cardinality(live) |-> i]
    /\ group_assignments = [g \in Groups |-> <<>>]
    /\ config_file = NoFile
    /\ last = NoOp
    /\ steps = 0
    /\ desktop = NoDesktop
    /\ box_vars = DefaultBoxes
    /\ sandbox = NoSandbox
    /\ geo \in GuiInputs \cup CliInputs

GeomFrame ==
    UNCHANGED <<rows, columns, layout_group_var, heap, windows, group_assignments,
                config_file, live, last, steps, desktop, box_vars, sandbox>>

\* compute_grid_positions on the region tile_windows resolves
ComputeGridPositions ==
    /\ geo.prog = "cli" /\ geo.op = ""
    /\ LET region == TileRegion(geo.force_resolution, geo.use_work_area, geo.work_area)
           res    == compute_grid_positions(region[1], region[2], region[3], region[4],
                                            geo.columns, geo.rows, geo.count)
       IN  geo' = [geo EXCEPT !.op = "compute_grid_positions", !.region = region,
                              !.raised = res.raised, !.rects = res.rects]
    /\ GeomFrame

\* tile_windows when enumerate_windows finds the windows 1..found
TileWindows(found, dry_run) ==
    /\ geo.prog = "cli" /\ geo.op = ""
    /\ LET res == tile_windows(geo.columns, geo.rows, geo.count, geo.use_work_area,
                               geo.force_resolution, dry_run, geo.work_area,
                               [i \in 1..found |-> i])
       IN  geo' = [geo EXCEPT !.op = "tile_windows", !.found = found, !.dry_run = dry_run,
                              !.region = res.region, !.raised = res.raised,
                              !.rects = res.rects, !.moved = res.moved]
    /\ GeomFrame

\* calculate_positions on the settings
CalculatePositions ==
    /\ geo.prog = "gui" /\ geo.op = ""
    /\ LET res == calculate_positions(geo.use_workarea, geo.work_area, geo.screen_width,
                                      geo.screen_height, geo.rows, geo.columns,
                                      geo.h_gap, geo.v_gap)
       IN  geo' = [geo EXCEPT !.op = "calculate_positions", !.region = res.region,
                              !.raised = res.raised, !.positions = res.positions]
    /\ GeomFrame

GeomNext ==
    \/ ComputeGridPositions
    \/ \E found \in 0..MaxHwnd, dry_run \in BOOLEAN : TileWindows(found, dry_run)
    \/ CalculatePositions

GeomSpec == GeomInit /\ [][GeomNext]_vars

\* ===================================================== window enumeration
\* EnumWindows and the two filters: is_window_valid / enumerate_windows of the
\* command line and the callback of the GUI's get_windows. An enumeration
\* starts from the windows of the desktop, in the order EnumWindows yields
\* them; the handle of a window is its place in that order.
MaxDesk == 2

\* a title is a sequence of characters
ProgramManager ==
    <<"P", "r", "o", "g", "r", "a", "m", " ", "M", "a", "n", "a", "g", "e", "r">>

\* str.lower() on the characters that occur
LowerChar(ch) ==
    CASE ch = "P" -> "p"
      [] ch = "M" -> "m"
      [] ch = "A" -> "a"
      [] OTHER    -> ch

lower(s) == [i \in 1..Len(s) |-> LowerChar(s[i])]

\* str.strip(): leading and trailing blanks are removed
RECURSIVE lstrip(_)
lstrip(s) == IF s # <<>> /\ s[1] = " " THEN lstrip(Tail(s)) ELSE s

RECURSIVE rstrip(_)
rstrip(s) ==
    IF s # <<>> /\ s[Len(s)] = " " THEN rstrip(SubSeq(s, 1, Len(s) - 1)) ELSE s

strip(s) == rstrip(lstrip(s))

\* GetWindowTextW: no title, a blank one, an ordinary one, the shell's
\* desktop window, and that title in lower case between blanks
Titles ==
    {<<>>, <<" ">>, <<"A", "p", "p">>, ProgramManager,
     <<" ">> \o lower(ProgramManager) \o <<" ">>}

\* GetWindowLongW(hwnd, GWL_EXSTYLE): WS_EX_TOPMOST (8) alone or with
\* WS_EX_TOOLWINDOW (128)
ExStyles == {8, 136}

\* ex_style & WS_EX_TOOLWINDOW
IsToolWindow(ex_style) == (ex_style \div 128) % 2 = 1

\* os.getpid() and the process of another program
Pids == {"this", "other"}
getpid == "this"

\* what the platform reports about one window; owner 0 is no owner
OsWindows ==
    [visible : BOOLEAN, iconic : BOOLEAN, ex_style : ExStyles, owner : {0, 1},
     title : Titles, pid : Pids]

\* faulty variant: owned windows are accepted
is_window_valid_OwnerIgnored(w, current_pid) ==
    IF ~w.visible THEN FALSE
    ELSE IF w.iconic THEN FALSE
    ELSE IF IsToolWindow(w.ex_style) THEN FALSE
    ELSE IF Len(w.title) = 0 THEN FALSE
    ELSE IF strip(w.title) = <<>> THEN FALSE
    ELSE IF lower(strip(w.title)) \in {lower(ProgramManager)} THEN FALSE
    ELSE IF w.pid = current_pid THEN FALSE
    ELSE TRUE

\* is_window_valid(hwnd, current_pid)
is_window_valid(w, current_pid) ==
    IF ~w.visible THEN FALSE
    ELSE IF w.iconic THEN FALSE
    ELSE IF IsToolWindow(w.ex_style) THEN FALSE
    ELSE IF w.owner # 0 THEN FALSE
    ELSE IF Len(w.title) = 0 THEN FALSE
    ELSE IF strip(w.title) = <<>> THEN FALSE
    ELSE IF lower(strip(w.title)) \in {lower(ProgramManager)} THEN FALSE
    ELSE IF w.pid = current_pid THEN FALSE
    ELSE TRUE

\* enumerate_windows(max_count): the callback appends (hwnd, title) for a
\* valid window and stops the enumeration once max_count, if given and not 0,
\* is reached; max_count is <<>> for None and <<k>> for k
enumerate_windows(ws, max_count) ==
    LET RECURSIVE callback(_, _)
        callback(hwnd, result) ==
            IF hwnd > Len(ws) THEN result
            ELSE IF is_window_valid(ws[hwnd], getpid)
            THEN LET appended == Append(result, <<hwnd, ws[hwnd].title>>)
                 IN  IF max_count # <<>> /\ max_count[1] # 0
                        /\ Len(appended) >= max_count[1]
                     THEN appended
                     ELSE callback(hwnd + 1, appended)
            ELSE callback(hwnd + 1, result)
    IN  callback(1, <<>>)

\* enum_windows_proc of get_windows: does the callback append the window
enum_windows_proc(w, current_pid) ==
    IF ~w.visible THEN FALSE
    ELSE IF w.iconic THEN FALSE
    ELSE IF Len(w.title) = 0 THEN FALSE
    ELSE IF IsToolWindow(w.ex_style) THEN FALSE
    ELSE IF w.pid = current_pid THEN FALSE
    ELSE TRUE

\* get_windows() on the desktop ws: (hwnd, title) of the WindowInfo objects
EnumeratedByGui(ws) ==
    LET kept == SelectSeq([i \in 1..Len(ws) |-> i],
                          LAMBDA i : enum_windows_proc(ws[i], getpid))
    IN  [k \in 1..Len(kept) |-> <<kept[k], ws[kept[k]].title>>]

\* the GUI store is the one of start-up; the desktop is chosen
DeskInit ==
    /\ rows = DefaultRows
    /\ columns = DefaultColumns
    /\ layout_group_var = layout_groups[1]
    /\ live = Hwnds
    /\ heap = get_windows(live)
    /\ windows = [i \in 1..Cardinality(live) |-> i]
    /\ group_assignments = [g \in Groups |-> <<>>]
    /\ config_file = NoFile
    /\ last = NoOp
    /\ steps = 0
    /\ geo = NoGeometry
    /\ box_vars = DefaultBoxes
    /\ sandbox = NoSandbox
    /\ \E n \in 0..MaxDesk : \E ws \in [1..n -> OsWindows] :
           desktop = [NoDesktop EXCEPT !.windows = ws]

DeskFrame ==
    UNCHANGED <<rows, columns, layout_group_var, heap, windows, group_assignments,
                config_file, live, last, steps, geo, box_vars, sandbox>>

\* is_window_valid on window hwnd
IsWindowValid(hwnd) ==
    /\ desktop.op = ""
    /\ hwnd \in 1..Len(desktop.windows)
    /\ desktop' = [desktop EXCEPT !.op = "is_window_valid", !.hwnd = hwnd,
                                  !.valid = is_window_valid(desktop.windows[hwnd], getpid)]
    /\ DeskFrame

\* enumerate_windows(max_count)
EnumerateWindows(max_count) ==
    /\ desktop.op = ""
    /\ desktop' = [desktop EXCEPT !.op = "enumerate_windows", !.max_count = max_count,
                                  !.result = enumerate_windows(desktop.windows, max_count)]
    /\ DeskFrame

\* get_windows() of the GUI
GetWindows ==
    /\ desktop.op = ""
    /\ desktop' = [desktop EXCEPT !.op = "get_windows",
                                  !.result = EnumeratedByGui(desktop.windows)]
    /\ DeskFrame

DeskNext ==
    \/ \E hwnd \in 1..MaxDesk : IsWindowValid(hwnd)
    \/ \E max_count \in {<<>>, <<0>>, <<1>>} : EnumerateWindows(max_count)
    \/ GetWindows

DeskSpec == DeskInit /\ [][DeskNext]_vars

\* ======================================================= box selection
\* The check boxes of the sandbox tab and their batch buttons, together with
\* the handlers of the layout tab that read or write the groups.
MaxBox == 3

\* the name a sequence of characters spells, for the names of the groups
GroupChars ==
    [g \in Groups |->
        CASE g = "01-06" -> <<"0", "1", "-", "0", "6">>
          [] g = "07-12" -> <<"0", "7", "-", "1", "2">>
          [] g = "13-18" -> <<"1", "3", "-", "1", "8">>
          [] g = "19-24" -> <<"1", "9", "-", "2", "4">>]

StrOf(chars) ==
    IF \E g \in Groups : GroupChars[g] = chars
    THEN CHOOSE g \in Groups : GroupChars[g] = chars
    ELSE "other"

\* faulty variant: the numbers of the key are not padded to two digits
group_key_Unpadded(start_idx, end_idx) ==
    StrOf(IntToStr(start_idx) \o <<"-">> \o IntToStr(end_idx))

\* group_key = f"{start_idx:02d}-{end_idx:02d}"
group_key(start_idx, end_idx) == StrOf(Pad2(start_idx) \o <<"-">> \o Pad2(end_idx))

\* create_group_row(parent, start_idx, end_idx) is called for these rows
GroupRows == {<<1, 6>>, <<7, 12>>, <<13, 18>>, <<19, 24>>}

\* faulty variant: "first five" sets the whole row
GroupSelection_WholeRow(bv, start_idx, end_idx, mode) ==
    LET ids == {start_idx + k - 1 : k \in 1..(end_idx - start_idx + 1)}
    IN  IF mode = "none" THEN bv \ ids ELSE bv \cup ids

\* the check boxes after apply_group_selection(ids, mode), ids = start_idx..end_idx
GroupSelection(bv, start_idx, end_idx, mode) ==
    LET ids == [k \in 1..(end_idx - start_idx + 1) |-> start_idx + k - 1]
        on  == CASE mode = "all"    -> {ids[k] : k \in 1..Len(ids)}
                 [] mode = "none"   -> {}
                 [] mode = "first5" -> {ids[k] : k \in {n \in 1..Len(ids) : n - 1 < 5}}
    IN  (bv \ {ids[k] : k \in 1..Len(ids)}) \cup on

\* a step of the box tab: the geometry, desktop and launch state are not its concern
BoxTick == steps < MaxSteps /\ steps' = steps + 1 /\ UNCHANGED <<geo, desktop, sandbox>>

\* a batch button of a row of boxes: apply_group_selection, which also makes
\* the row's group the active layout group; get_current_assignments raises
\* KeyError when the key names no group
ApplyGroupSelection(start_idx, end_idx, mode) ==
    /\ BoxTick
    /\ <<start_idx, end_idx>> \in GroupRows
    /\ box_vars' = GroupSelection(box_vars, start_idx, end_idx, mode)
    /\ LET key == group_key(start_idx, end_idx)
       IN  /\ layout_group_var' = key
           /\ IF key \in DOMAIN group_assignments
              THEN CommitStore(on_layout_group_change(Current, key, live))
              ELSE UNCHANGED <<heap, windows, group_assignments>>
           /\ last' = [NoOp EXCEPT !.op = "box_" \o mode, !.group = key,
                                   !.done = key \in DOMAIN group_assignments,
                                   !.raised = key \notin DOMAIN group_assignments]
    /\ UNCHANGED <<rows, columns, config_file, live>>

\* the handlers below leave the layout tab alone
BoxFrame ==
    UNCHANGED <<rows, columns, layout_group_var, heap, windows, group_assignments,
                config_file, live>>

\* select_all_boxes
SelectAllBoxes ==
    /\ BoxTick
    /\ box_vars' = Boxes
    /\ last' = [NoOp EXCEPT !.op = "select_all"]
    /\ BoxFrame

\* select_no_boxes
SelectNoBoxes ==
    /\ BoxTick
    /\ box_vars' = {}
    /\ last' = [NoOp EXCEPT !.op = "select_none"]
    /\ BoxFrame

\* select_first_two_boxes: none, then the first two of the sorted ids
SelectFirstTwoBoxes ==
    /\ BoxTick
    /\ LET ids == SortedSeq(Boxes)
       IN  box_vars' = {ids[k] : k \in {n \in 1..Len(ids) : n - 1 < 2}}
    /\ last' = [NoOp EXCEPT !.op = "select_first_two"]
    /\ BoxFrame

\* a click on the check box of box b
ToggleBox(b) ==
    /\ BoxTick
    /\ b \in Boxes
    /\ box_vars' = IF b \in box_vars THEN box_vars \ {b} ELSE box_vars \cup {b}
    /\ last' = [NoOp EXCEPT !.op = "toggle"]
    /\ BoxFrame

\* a record in the grouped format that names a group this version does not
\* have, beside one of its own that was saved with windows 1 and 2 side by side
ForeignConfig ==
    [exists |-> TRUE, rows |-> DefaultRows, columns |-> DefaultColumns, has_groups |-> TRUE,
     group_assignments |->
        << <<"25-30", << <<PosStr(<<0, 0>>),
                           [title |-> TitleOf(1), class_name |-> ClassNameOf(1)]>> >> >>,
           <<layout_groups[2], << <<PosStr(<<0, 0>>),
                                    [title |-> TitleOf(1), class_name |-> ClassNameOf(1)]>>,
                                  <<PosStr(<<0, 1>>),
                                    [title |-> TitleOf(2), class_name |-> ClassNameOf(2)]>> >> >> >>,
     assignments |-> <<>>]

\* the user puts such a file in place
RestoreForeignConfig ==
    /\ Tick
    /\ config_file' = ForeignConfig
    /\ last' = [NoOp EXCEPT !.op = "restore"]
    /\ UNCHANGED <<rows, columns, layout_group_var, heap, windows, group_assignments, live>>

BoxNext ==
    \/ \E row \in GroupRows, mode \in {"all", "none", "first5"} :
          ApplyGroupSelection(row[1], row[2], mode)
    \/ SelectAllBoxes
    \/ SelectNoBoxes
    \/ SelectFirstTwoBoxes
    \/ \E b \in 1..MaxBox : ToggleBox(b)
    \/ \E i \in 1..MaxHwnd : AssignFromList(i, <<0, 0>>)
    \/ \E cell \in AllCells : RemoveFromGrid(cell)
    \/ \E g \in Groups : SelectLayoutGroup(g)
    \/ SaveConfig
    \/ LoadConfig
    \/ \E cfg \in LegacyConfigs : RestoreLegacyConfig(cfg)
    \/ RestoreForeignConfig

BoxSpec == Init /\ [][BoxNext]_vars

\* ====================================================== sandbox launcher
\* launch_sandboxes and terminate_all_sandboxes. The handler runs on the Tk
\* thread, so one of them runs at a time; a call of the external tool is a
\* step of its own, between the start of the call and its return.

\* sandbox_path, program_path joined with program_exe: opaque paths; an
\* argument of a command is a sequence of pieces of text
sandbox_path == <<"Start.exe">>
full_program_path == <<"program.exe">>

\* return codes the external tool may give
ReturnCodes == {0, 1}

\* get_selected_boxes: the ids of the set check boxes, in the order of the dictionary
get_selected_boxes(bv) == SortedSeq(bv)

\* command = [sandbox_path, f"/box:{box_id}", full_program_path]
LaunchCommand(box) == <<sandbox_path, <<"/box:">> \o Pad2(box), full_program_path>>

\* cmd = [sandbox_path, "/terminate_all"]
TerminateCommand == <<sandbox_path, <<"/terminate_all">> >>

\* the selection is made before the button is pressed
LaunchInit ==
    /\ rows = DefaultRows
    /\ columns = DefaultColumns
    /\ layout_group_var = layout_groups[1]
    /\ live = Hwnds
    /\ heap = get_windows(live)
    /\ windows = [k \in 1..Cardinality(live) |-> k]
    /\ group_assignments = [g \in Groups |-> <<>>]
    /\ config_file = NoFile
    /\ last = NoOp
    /\ steps = 0
    /\ geo = NoGeometry
    /\ desktop = NoDesktop
    /\ box_vars \in SUBSET (1..MaxBox)
    /\ sandbox = NoSandbox

LaunchFrame ==
    UNCHANGED <<rows, columns, layout_group_var, heap, windows, group_assignments,
                config_file, live, last, steps, geo, desktop, box_vars>>

\* launch_sandboxes up to the loop: a warning and return when nothing is selected
LaunchSandboxes ==
    /\ sandbox.pc = "idle"
    /\ LET selected_boxes == get_selected_boxes(box_vars)
       IN  sandbox' = IF selected_boxes = <<>>
                      THEN [NoSandbox EXCEPT !.op = "launch", !.pc = "done", !.warned = TRUE]
                      ELSE [NoSandbox EXCEPT !.op = "launch", !.pc = "loop",
                                             !.selected_boxes = selected_boxes]
    /\ LaunchFrame

\* faulty variant: a missing executable ends the loop
MissingExecutable_Aborting(sb) ==
    [sb EXCEPT !.outcomes = Append(@, <<sb.selected_boxes[sb.i], "missing">>),
               !.i = Len(sb.selected_boxes) + 1]

\* if not os.path.isfile(full_program_path): report and continue
MissingExecutable(sb) ==
    [sb EXCEPT !.outcomes = Append(@, <<sb.selected_boxes[sb.i], "missing">>),
               !.i = @ + 1]

\* the loop body up to subprocess.run
LaunchBox(is_file) ==
    /\ sandbox.op = "launch" /\ sandbox.pc = "loop"
    /\ sandbox.i <= Len(sandbox.selected_boxes)
    /\ sandbox' = IF ~is_file THEN MissingExecutable(sandbox)
                  ELSE [sandbox EXCEPT !.pc = "running",
                                       !.command = LaunchCommand(sandbox.selected_boxes[sandbox.i]),
                                       !.commands = Append(@, LaunchCommand(sandbox.selected_boxes[sandbox.i]))]
    /\ LaunchFrame

\* subprocess.run returned rc
RunReturned(sb, rc) ==
    [sb EXCEPT !.pc = "loop", !.i = @ + 1,
               !.returncodes = Append(@, <<sb.selected_boxes[sb.i], rc>>),
               !.outcomes = Append(@, <<sb.selected_boxes[sb.i],
                                        IF rc = 0 THEN "success" ELSE "failed">>),
               !.success_count = IF rc = 0 THEN @ + 1 ELSE @]

\* the external tool returns
RunReturns(rc) ==
    /\ sandbox.op = "launch" /\ sandbox.pc = "running"
    /\ sandbox' = RunReturned(sandbox, rc)
    /\ LaunchFrame

\* subprocess.run raises (the tool cannot be started): except Exception
RunRaises ==
    /\ sandbox.op = "launch" /\ sandbox.pc = "running"
    /\ sandbox' = [sandbox EXCEPT !.pc = "loop", !.i = @ + 1,
                                  !.outcomes = Append(@, <<sandbox.selected_boxes[sandbox.i],
                                                           "exception">>)]
    /\ LaunchFrame

\* after the loop: the summary line of the status text
LaunchSummary ==
    /\ sandbox.op = "launch" /\ sandbox.pc = "loop"
    /\ sandbox.i > Len(sandbox.selected_boxes)
    /\ sandbox' = [sandbox EXCEPT !.pc = "done",
                                  !.summary = <<sandbox.success_count,
                                                Len(sandbox.selected_boxes)>>]
    /\ LaunchFrame

\* terminate_all_sandboxes up to process.communicate(timeout=5)
TerminateAllSandboxes ==
    /\ sandbox.pc = "idle"
    /\ sandbox' = [NoSandbox EXCEPT !.op = "terminate", !.pc = "running",
                                    !.command = TerminateCommand,
                                    !.commands = <<TerminateCommand>>]
    /\ LaunchFrame

\* faulty variant: every return of the tool is reported as a success
TerminateReported_AlwaysSuccess(rc) == "success"

\* if process.returncode == 0: ... else: ...
TerminateReported(rc) == IF rc = 0 THEN "success" ELSE "failure"

\* the external tool returns within the five seconds
TerminateReturns(rc) ==
    /\ sandbox.op = "terminate" /\ sandbox.pc = "running"
    /\ sandbox' = [sandbox EXCEPT !.pc = "done",
                                  !.returncodes = <<<<0, rc>>>>,
                                  !.reported = TerminateReported(rc)]
    /\ LaunchFrame

\* communicate raises TimeoutExpired after five seconds, or Popen raised:
\* except Exception reports the failure
TerminateRaises ==
    /\ sandbox.op = "terminate" /\ sandbox.pc = "running"
    /\ sandbox' = [sandbox EXCEPT !.pc = "done", !.reported = "failure"]
    /\ LaunchFrame

LaunchNext ==
    \/ LaunchSandboxes
    \/ \E is_file \in BOOLEAN : LaunchBox(is_file)
    \/ \E rc \in ReturnCodes : RunReturns(rc)
    \/ RunRaises
    \/ LaunchSummary
    \/ TerminateAllSandboxes
    \/ \E rc \in ReturnCodes : TerminateReturns(rc)
    \/ TerminateRaises

LaunchSpec == LaunchInit /\ [][LaunchNext]_vars

\* The steps of the handler itself are taken when they can be, and the timer
\* of communicate(timeout=5) expires when the tool has not returned; nothing
\* makes the external tool return.
LaunchFairSpec ==
    /\ LaunchSpec
    /\ WF_vars(\E is_file \in BOOLEAN : LaunchBox(is_file))
    /\ WF_vars(LaunchSummary)
    /\ WF_vars(TerminateRaises)

\* ================================================================ claims
\* entries of the active group whose window is gone (stale handles)
StaleEntries ==
    {i \in 1..Len(get_current_assignments) :
        heap[get_current_assignments[i][2]].hwnd \notin live}

ActiveMapping == Mapping(layout_group_var)

\* C1: in every group no two cells hold a window with the same hwnd, and a
\* cell holds one window (a dictionary has one value per key).
C1_MappingInjective ==
    \A g \in Groups :
        \A i, j \in 1..Len(group_assignments[g]) :
            i # j =>
                /\ group_assignments[g][i][1] # group_assignments[g][j][1]
                /\ heap[group_assignments[g][i][2]].hwnd # heap[group_assignments[g][j][2]].hwnd

\* C2: assign(w, c) directly followed by assign(w, c2), c2 # c, with w taken
\* from the window list both times, leaves w in cell c2 only.
C2_ReassignMoves ==
    [][(/\ last.op = "assign" /\ last'.op = "assign"
        /\ last'.hwnd = last.hwnd /\ last'.cell # last.cell)
       => CellsOfHwndIn(heap', group_assignments', layout_group_var, last'.hwnd)
            = {last'.cell}]_vars

\* C3: assign(w1, c) directly followed by assign(w2, c), w2 # w1, leaves
\* c -> w2, w1 in no cell of the group and no marker on w1 in the window list.
C3_SecondWindowEvictsFirst ==
    [][(/\ last.op = "assign" /\ last'.op = "assign"
        /\ last'.hwnd # last.hwnd /\ last'.cell = last.cell)
       => /\ <<last'.cell, last'.hwnd>> \in ActiveMapping'
          /\ CellsOfHwndIn(heap', group_assignments', layout_group_var, last.hwnd) = {}
          /\ \A i \in 1..Len(windows') :
                heap'[windows'[i]].hwnd = last.hwnd
                    => heap'[windows'[i]].assigned_position = None]_vars

\* C4: unassign of a window of the window list removes the entries of the
\* active group that hold its hwnd and nothing else.
C4_UnassignRemovesEntry ==
    [][(last'.op = "remove" /\ last'.source = "list")
       => ActiveMapping' = {p \in ActiveMapping : p[2] # last'.hwnd}]_vars

\* C5 (as stated): save_config directly followed by load_config reproduces
\* every group's mapping cell -> hwnd, and matched_count is the number of
\* persisted entries.
C5_SaveLoadRoundTrip ==
    [][(last.op = "save" /\ last.done /\ last'.op = "load")
       => /\ \A g \in Groups : Mapping(g)' = Mapping(g)
          /\ last'.matched_count = last'.entries]_vars

\* every stored window is told apart by the matching rule: the windows of the
\* list that have its title or its class name are exactly the window itself
Unambiguous ==
    \A g \in Groups : \A i \in 1..Len(group_assignments[g]) :
        LET o == heap[group_assignments[g][i][2]]
        IN  /\ \E j \in 1..Len(windows) : heap[windows[j]].hwnd = o.hwnd
            /\ \A j \in 1..Len(windows) :
                  Matches(heap[windows[j]], o) <=> heap[windows[j]].hwnd = o.hwnd

\* C5 (amended): when save_config wrote a record and every stored window is
\* the only window of the list with its title or its class name, load_config
\* right after reproduces every group's mapping and matches every entry.
C5_SaveLoadRoundTripUnambiguous ==
    [][(last.op = "save" /\ last.done /\ last'.op = "load" /\ Unambiguous)
       => /\ \A g \in Groups : Mapping(g)' = Mapping(g)
          /\ last'.matched_count = last'.entries]_vars

\* a load right after a save bound two different windows, each the only
\* window of the list with its title or class name, and restored both cells
C5_RoundTripDone ==
    /\ last.op = "load" /\ last.after_save /\ last.source = "grouped"
    /\ last.entries = 2 /\ last.matched_count = 2
    /\ last.bound[1] # last.bound[2]
    /\ Unambiguous
    /\ Cardinality(ActiveMapping) = 2

\* C6: in one load_config pass no window of the list is bound twice.
C6_CandidateBoundOnce ==
    last.op = "load" =>
        \A i, j \in 1..Len(last.bound) : i # j => last.bound[i] # last.bound[j]

\* C7: every key of every group's dictionary is a cell of the current grid.
C7_CellsInsideGrid ==
    \A g \in Groups : DictKeys(group_assignments[g]) \subseteq GridCells(rows, columns)

\* C8: apply_layout on a non-empty group attempts every entry, raises
\* nothing and ends with its succeeded / total report.
C8_ApplyAttemptsAll ==
    (last.op = "apply" /\ get_current_assignments # <<>>)
        => /\ ~last.raised
           /\ last.done
           /\ Len(last.moved) = Len(get_current_assignments)
           /\ last.total = Len(get_current_assignments)

\* C9: a batch of n entries of which k are stale reports n - k of n.
C9_StaleCounted ==
    (last.op = "apply" /\ last.done)
        => /\ last.total = Len(get_current_assignments)
           /\ last.success_count = last.total - Cardinality(StaleEntries)

\* C10: clear_assignments empties the active group's mapping and leaves the
\* mapping of every other group as it was.
C10_ClearOnlyActive ==
    [][last'.op = "clear"
       => /\ get_current_assignments' = <<>>
          /\ \A g \in Groups \ {layout_group_var} : Mapping(g)' = Mapping(g)]_vars

\* clear_assignments emptied a non-empty group while another group has entries
C10_ClearedBesideOthers ==
    /\ last.op = "clear" /\ last.entries > 0
    /\ get_current_assignments = <<>>
    /\ \E g \in Groups \ {layout_group_var} : group_assignments[g] # <<>>

\* C11: switching the active group changes the stored mapping of no group:
\* after on_layout_group_change every group maps the same cells to the same
\* windows as before, so assign in A, switch to B, switch back leaves A as it was.
C11_SwitchKeepsMappings ==
    [][last'.op = "switch"
       => \A g \in Groups : Mapping(g)' = Mapping(g)]_vars

\* the first group was switched back to and still holds an entry
C11_SwitchedBackToEntries ==
    /\ last.op = "switch"
    /\ layout_group_var = layout_groups[1]
    /\ get_current_assignments # <<>>

\* C12: assigning or unassigning while group G is active changes the mapping
\* of G only: no entry of any other group is added, moved or deleted, so a
\* window assigned in another group stays at its cell there.
C12_OtherGroupsUntouched ==
    [][last'.op \in {"assign", "remove"}
       => \A g \in Groups \ {layout_group_var} : Mapping(g)' = Mapping(g)]_vars

\* a window was assigned in the active group to a cell at which another group
\* holds the same window
C12_SameWindowInTwoGroups ==
    /\ last.op = "assign"
    /\ <<last.cell, last.hwnd>> \in Mapping(layout_group_var)
    /\ \E g \in Groups \ {layout_group_var} : <<last.cell, last.hwnd>> \in Mapping(g)

\* ------------------------------------------------------ geometry claims
RECURSIVE SumSeq(_)
SumSeq(s) == IF s = <<>> THEN 0 ELSE s[1] + SumSeq(Tail(s))

\* the region is not negative and the grid has at least one row and column
GeomValid ==
    /\ geo.region # None
    /\ geo.region[1] >= 0 /\ geo.region[2] >= 0
    /\ geo.rows >= 1 /\ geo.columns >= 1

\* the rectangle compute_grid_positions returned for cell (r, c)
RectAt(r, c) == geo.rects[r * geo.columns + c + 1]

\* the rectangle of calculate_positions for cell (r, c) before the gaps
RawAt(r, c) == RawCell(geo.region, geo.rows, geo.columns, r, c)

\* the cells of the grid of the computation
GeoCells == (0..(geo.rows - 1)) \X (0..(geo.columns - 1))

\* the rectangles R[<<r, c>>] of an rs x cs grid fill w x h without gap or overlap
ExactPartition(R, w, h, rs, cs) ==
    /\ \A r \in 0..(rs - 1) : SumSeq([c \in 1..cs |-> R[<<r, c - 1>>][3]]) = w
    /\ \A c \in 0..(cs - 1) : SumSeq([r \in 1..rs |-> R[<<r - 1, c>>][4]]) = h
    /\ \A r \in 0..(rs - 1), c \in 0..(cs - 2) :
           R[<<r, c + 1>>][1] = R[<<r, c>>][1] + R[<<r, c>>][3]
    /\ \A r \in 0..(rs - 2), c \in 0..(cs - 1) :
           R[<<r + 1, c>>][2] = R[<<r, c>>][2] + R[<<r, c>>][4]

\* C13: for a region of width and height >= 0 and rows, columns >= 1, before
\* the gaps are applied the widths of the columns sum to the width of the
\* region, the heights of the rows to its height, and neighbouring cells abut,
\* in compute_grid_positions and in calculate_positions.
C13_CellsFillRegion ==
    /\ (geo.op = "compute_grid_positions" /\ GeomValid
            /\ geo.count >= geo.rows * geo.columns)
        => /\ geo.raised = ""
           /\ Len(geo.rects) = geo.rows * geo.columns
           /\ ExactPartition([cell \in GeoCells |-> RectAt(cell[1], cell[2])],
                             geo.region[1], geo.region[2], geo.rows, geo.columns)
    /\ (geo.op = "calculate_positions" /\ GeomValid)
        => /\ geo.raised = ""
           /\ ExactPartition([cell \in GeoCells |-> RawAt(cell[1], cell[2])],
                             geo.region[1], geo.region[2], geo.rows, geo.columns)
           /\ (geo.h_gap = 0 /\ geo.v_gap = 0)
                 => \A cell \in DOMAIN geo.positions :
                        geo.positions[cell] = RawAt(cell[1], cell[2])

\* compute_grid_positions returned the whole grid of a width that the columns
\* do not divide
C13_FullGridWithRemainder ==
    /\ geo.op = "compute_grid_positions" /\ GeomValid
    /\ geo.columns = 3 /\ geo.rows = 2 /\ geo.region[1] = 2561
    /\ Len(geo.rects) = 6

\* the size of share i (from 0) of `total` split n ways, and where it starts
ShareSize(total, n, i) == (total \div n) + (IF i < total % n THEN 1 ELSE 0)
ShareStart(offset, total, n, i) ==
    offset + SumSeq([j \in 1..i |-> ShareSize(total, n, j - 1)])

\* the rectangle the partition rule gives cell (r, c)
RuleRect(r, c) ==
    <<ShareStart(geo.region[3], geo.region[1], geo.columns, c),
      ShareStart(geo.region[4], geo.region[2], geo.rows, r),
      ShareSize(geo.region[1], geo.columns, c),
      ShareSize(geo.region[2], geo.rows, r)>>

\* C14: column c is floor(W / columns) + 1 wide if c < W mod columns and
\* floor(W / columns) wide otherwise, and starts at the origin plus the widths
\* of the columns before it; rows likewise. A 1920 x 1040 region at (0, 0)
\* with 2 rows, 3 columns and no gaps gives cell (0, 0) = (0, 0, 640, 520) and
\* cell (1, 2) = (1280, 520, 640, 520); a width of 2561 in 3 columns gives
\* the widths 854, 854, 853.
C14_RemainderToFirstColumns ==
    /\ (geo.op = "compute_grid_positions" /\ GeomValid)
        => \A idx \in 0..(Len(geo.rects) - 1) :
               geo.rects[idx + 1] = RuleRect(idx \div geo.columns, idx % geo.columns)
    /\ (geo.op = "calculate_positions" /\ GeomValid)
        => \A cell \in DOMAIN geo.positions :
               /\ RawAt(cell[1], cell[2]) = RuleRect(cell[1], cell[2])
               /\ (geo.h_gap = 0 /\ geo.v_gap = 0)
                     => geo.positions[cell] = RuleRect(cell[1], cell[2])
    /\ (geo.op = "calculate_positions" /\ geo.region = <<1920, 1040, 0, 0>>
            /\ geo.rows = 2 /\ geo.columns = 3 /\ geo.h_gap = 0 /\ geo.v_gap = 0)
        => /\ geo.positions[<<0, 0>>] = <<0, 0, 640, 520>>
           /\ geo.positions[<<1, 2>>] = <<1280, 520, 640, 520>>
    /\ (geo.op = "compute_grid_positions" /\ GeomValid /\ geo.region[1] = 2561
            /\ geo.columns = 3 /\ Len(geo.rects) >= 3)
        => <<geo.rects[1][3], geo.rects[2][3], geo.rects[3][3]>> = <<854, 854, 853>>

\* calculate_positions ran on the 1920 x 1040 example
C14_ExampleComputed ==
    /\ geo.op = "calculate_positions" /\ geo.raised = ""
    /\ geo.region = <<1920, 1040, 0, 0>>
    /\ geo.rows = 2 /\ geo.columns = 3 /\ geo.h_gap = 0 /\ geo.v_gap = 0
    /\ DOMAIN geo.positions = (0..1) \X (0..2)

\* the rectangles calculate_positions returned
PositionRects == {geo.positions[cell] : cell \in DOMAIN geo.positions}

SetMin(S) == CHOOSE x \in S : \A y \in S : x <= y
SetMax(S) == CHOOSE x \in S : \A y \in S : x >= y

\* C15: for every region, rows, columns >= 1 and every gap (positive,
\* negative, larger than a cell) the bounding rectangle of the rectangles
\* calculate_positions returns is the region: least left edge = origin x,
\* greatest right edge = origin x + width, least top edge = origin y,
\* greatest bottom edge = origin y + height.
C15_BoundingRectIsRegion ==
    (geo.op = "calculate_positions" /\ GeomValid)
        => /\ SetMin({q[1] : q \in PositionRects}) = geo.region[3]
           /\ SetMax({q[1] + q[3] : q \in PositionRects}) = geo.region[3] + geo.region[1]
           /\ SetMin({q[2] : q \in PositionRects}) = geo.region[4]
           /\ SetMax({q[2] + q[4] : q \in PositionRects}) = geo.region[4] + geo.region[2]

\* rows <= 0, columns <= 0, or a region of negative width or height
InvalidGeometry ==
    \/ geo.rows <= 0 \/ geo.columns <= 0
    \/ geo.region[1] < 0 \/ geo.region[2] < 0

\* C16: invalid geometry is rejected with an error before any cell rectangle
\* is computed, and no window is moved, in compute_grid_positions,
\* calculate_positions and tile_windows.
C16_InvalidGeometryRejected ==
    (geo.op # "" /\ InvalidGeometry)
        => /\ geo.raised # ""
           /\ geo.rects = <<>>
           /\ geo.positions = <<>>
           /\ geo.moved = <<>>

\* C17: tile_windows tiles the forced resolution at origin (0, 0) when one is
\* given, whatever use_work_area says; otherwise the work area with its own
\* origin if use_work_area is set; otherwise the full primary resolution at
\* origin (0, 0).
C17_TileRegionPriority ==
    (geo.op \in {"tile_windows", "compute_grid_positions"})
        => /\ geo.force_resolution # None
                => geo.region = <<geo.force_resolution[1], geo.force_resolution[2], 0, 0>>
           /\ (geo.force_resolution = None /\ geo.use_work_area)
                => geo.region = <<geo.work_area[3] - geo.work_area[1],
                                  geo.work_area[4] - geo.work_area[2],
                                  geo.work_area[1], geo.work_area[2]>>
           /\ (geo.force_resolution = None /\ ~geo.use_work_area)
                => geo.region = <<ScreenMetrics[1], ScreenMetrics[2], 0, 0>>
           /\ (geo.raised = "" /\ geo.rects # <<>>)
                => <<geo.rects[1][1], geo.rects[1][2]>> = <<geo.region[3], geo.region[4]>>

\* tile_windows moved a window with a forced resolution while use_work_area
\* was set and the work area does not start at (0, 0)
C17_ForcedOverWorkArea ==
    /\ geo.op = "tile_windows" /\ geo.moved # <<>>
    /\ geo.force_resolution # None /\ geo.use_work_area
    /\ <<geo.work_area[1], geo.work_area[2]>> # <<0, 0>>
    /\ geo.moved[1][2][1] = 0 /\ geo.moved[1][2][2] = 0

\* C18 as stated: calculate_positions tiles the width and height settings at
\* origin (0, 0), whatever use_workarea says.
C18_SettingsAreRegion ==
    (geo.op = "calculate_positions")
        => geo.region = <<geo.screen_width, geo.screen_height, 0, 0>>

\* C18, amended: calculate_positions tiles the width and height settings at
\* origin (0, 0) when use_workarea is off; when it is on, the work area is
\* tiled at its own origin and the settings are not used.
C18_SettingsAreRegionIfBoxOff ==
    (geo.op = "calculate_positions")
        => /\ ~geo.use_workarea
                => geo.region = <<geo.screen_width, geo.screen_height, 0, 0>>
           /\ geo.use_workarea
                => geo.region = <<geo.work_area[3] - geo.work_area[1],
                                  geo.work_area[4] - geo.work_area[2],
                                  geo.work_area[1], geo.work_area[2]>>
           /\ (geo.raised = "" /\ <<0, 0>> \in DOMAIN geo.positions)
                => <<geo.positions[<<0, 0>>][1], geo.positions[<<0, 0>>][2]>>
                       = <<geo.region[3], geo.region[4]>>

\* calculate_positions tiled the settings with use_workarea off, on a screen
\* whose work area is another rectangle
C18_SettingsTiled ==
    /\ geo.op = "calculate_positions" /\ ~geo.use_workarea
    /\ geo.region = <<geo.screen_width, geo.screen_height, 0, 0>>
    /\ <<geo.work_area[3] - geo.work_area[1], geo.work_area[4] - geo.work_area[2],
          geo.work_area[1], geo.work_area[2]>> # geo.region
    /\ <<0, 0>> \in DOMAIN geo.positions

\* ------------------------------------------------- enumeration claims
\* a title of blanks only (or of nothing)
Blank(t) == \A i \in 1..Len(t) : t[i] = " "

\* the title from its first to its last character that is not a blank
Trimmed(t) ==
    IF Blank(t) THEN <<>>
    ELSE LET ink == {i \in 1..Len(t) : t[i] # " "}
         IN  SubSeq(t, SetMin(ink), SetMax(ink))

\* the seven conditions: visible, not minimised, no tool-window bit, no owner,
\* a title that is not blank, not the shell's "Program Manager" in any case,
\* and not a window of the running process
IsCandidate(w) ==
    /\ w.visible
    /\ ~w.iconic
    /\ ~IsToolWindow(w.ex_style)
    /\ w.owner = 0
    /\ ~Blank(w.title)
    /\ lower(Trimmed(w.title)) # lower(ProgramManager)
    /\ w.pid # getpid

\* the candidates of the desktop as (hwnd, title), in enumeration order
Candidates ==
    LET kept == SelectSeq([i \in 1..Len(desktop.windows) |-> i],
                          LAMBDA i : IsCandidate(desktop.windows[i]))
    IN  [k \in 1..Len(kept) |-> <<kept[k], desktop.windows[kept[k]].title>>]

\* C19: the GUI's get_windows returns a window if and only if it is visible,
\* not minimised, without the tool-window bit, without an owner, with a title
\* that is not empty after trimming and is not the reserved "Program
\* Manager", and of another process than the current one.
C19_GuiListsCandidates ==
    (desktop.op = "get_windows") => desktop.result = Candidates

\* C20: is_window_valid(hwnd, current_pid) is true if and only if all seven
\* conditions hold, and enumerate_windows returns exactly the windows it
\* accepts, in enumeration order (the first max_count of them when a
\* max_count other than None or 0 is passed).
C20_CliListsCandidates ==
    /\ (desktop.op = "is_window_valid")
        => (desktop.valid <=> IsCandidate(desktop.windows[desktop.hwnd]))
    /\ (desktop.op = "enumerate_windows" /\ desktop.max_count \in {<<>>, <<0>>})
        => desktop.result = Candidates
    /\ (desktop.op = "enumerate_windows" /\ desktop.max_count \notin {<<>>, <<0>>})
        => desktop.result
             = SubSeq(Candidates, 1, min(desktop.max_count[1], Len(Candidates)))

\* enumerate_windows() ran on a desktop whose first window fails one of the
\* seven conditions and whose second window passes all of them
C20_EnumeratedSecondOnly ==
    /\ desktop.op = "enumerate_windows" /\ desktop.max_count = <<>>
    /\ Len(desktop.windows) = 2
    /\ ~IsCandidate(desktop.windows[1]) /\ desktop.windows[1].visible
    /\ IsCandidate(desktop.windows[2])
    /\ desktop.result = <<<<2, desktop.windows[2].title>>>>

\* the entries of the record in saving/ that name some window of the list
MatchedEntries(entries) ==
    {i \in 1..Len(entries) :
        \E j \in 1..Len(windows) : Matches(heap[windows[j]], entries[i][2])}

C24_MatchedCountIsBoundEntries ==
    [][(last'.op = "load" /\ last'.done)
       => LET gs == config_file.group_assignments
              named == IF config_file.has_groups
                       THEN {<<k, i>> \in (1..Len(gs)) \X (1..MaxRows * MaxColumns) :
                                /\ i <= Len(gs[k][2])
                                /\ i \in MatchedEntries(gs[k][2])}
                       ELSE {<<1, i>> : i \in MatchedEntries(config_file.assignments)}
          IN  /\ ~last'.raised
              /\ last'.matched_count = Cardinality(named)
              /\ last'.matched_count <= last'.entries]_vars

\* C25: the record save_config writes has one block per group, in each block
\* one entry per occupied cell of that group, keyed "row,col", holding the
\* title and the class name of the window of that cell and nothing else (no
\* window handle).
C25_SavedRecordListsEveryGroup ==
    [][(last'.op = "save" /\ last'.done)
       => LET gs == config_file'.group_assignments
          IN  /\ Len(gs) = Len(layout_groups)
              /\ \A k \in 1..Len(gs) :
                    LET d == group_assignments[gs[k][1]]
                    IN  /\ gs[k][1] = layout_groups[k]
                        /\ Len(gs[k][2]) = Len(d)
                        /\ \A i \in 1..Len(d) :
                              /\ gs[k][2][i][1] = PosStr(d[i][1])
                              /\ DOMAIN gs[k][2][i][2] = {"title", "class_name"}
                              /\ gs[k][2][i][2].title = heap[d[i][2]].title
                              /\ gs[k][2][i][2].class_name = heap[d[i][2]].class_name
                        /\ \A i, j \in 1..Len(d) :
                              gs[k][2][i][1] = gs[k][2][j][1] => i = j]_vars

\* a record was saved while a group other than the active one held a window
C25_SavedWithInactiveGroup ==
    /\ last.op = "save" /\ last.done
    /\ \E g \in Groups \ {layout_group_var} : Mapping(g) # {}
    /\ \E k \in 1..Len(config_file.group_assignments) :
          /\ config_file.group_assignments[k][1] # layout_group_var
          /\ config_file.group_assignments[k][2] # <<>>

\* C26: after a switch to group G every window of the list carries as marker
\* its cell in G's mapping if G assigns that window (same hwnd), and no
\* marker otherwise.
C26_MarkersFollowActiveGroup ==
    last.op = "switch"
    => \A i \in 1..Len(windows) :
          LET o == heap[windows[i]]
              cells == CellsOfHwnd(layout_group_var, o.hwnd)
          IN  IF cells = {} THEN o.assigned_position = None
              ELSE o.assigned_position \in cells

\* C28: refresh_windows changes the mapping of no group: the assignment of a
\* window that has disappeared stays in its group and cell. Only assigning,
\* unassigning, clearing and loading change a mapping.
C28_RefreshKeepsMappings ==
    [][last'.op \notin {"assign", "remove", "clear", "load"}
       => \A g \in Groups : Mapping(g)' = Mapping(g)]_vars

\* the list was refreshed while a group held a window that is gone
C28_RefreshedWithStaleEntry ==
    /\ last.op = "refresh"
    /\ \E g \in Groups : \E p \in Mapping(g) : p[2] \notin live

\* C27: for every gap, rows >= 1, columns >= 1 and a region of width and
\* height >= 0, every rectangle calculate_positions returns has a width and
\* a height >= 0.
C27_SizesNonNegative ==
    (geo.op = "calculate_positions" /\ GeomValid)
    => /\ geo.raised = ""
       /\ \A cell \in DOMAIN geo.positions :
             geo.positions[cell][3] >= 0 /\ geo.positions[cell][4] >= 0

\* calculate_positions ran with a gap wider than an inner cell: the width
\* left after taking half a gap from both sides would be negative
C27_GapWiderThanCell ==
    /\ geo.op = "calculate_positions" /\ GeomValid /\ geo.raised = ""
    /\ \E cell \in DOMAIN geo.positions :
          /\ 0 < cell[2] /\ cell[2] < geo.columns - 1
          /\ RawAt(cell[1], cell[2])[3] < 2 * FloorDiv(geo.h_gap, 2)
          /\ geo.positions[cell][3] = 0

\* C29: the active group is always one of the four fixed names and the store
\* always holds exactly those four groups, whatever switches, batch buttons
\* of the box rows and loads have run.
C29_FourGroupsOneActive ==
    /\ layout_group_var \in Groups
    /\ Cardinality(Groups) = 4
    /\ DOMAIN group_assignments = Groups
    /\ ~last.raised

\* a batch button made another group active, after a record that names a
\* foreign group was loaded
C29_BatchButtonAfterForeignLoad ==
    /\ last.op \in {"box_all", "box_none", "box_first5"}
    /\ layout_group_var # layout_groups[1]
    /\ config_file = ForeignConfig
    /\ Mapping(layout_groups[2]) # {}

\* the boxes whose launch returned exit status 0
LaunchedBoxes ==
    {sandbox.returncodes[k][1] :
        k \in {n \in 1..Len(sandbox.returncodes) : sandbox.returncodes[n][2] = 0}}

\* C21: launch_sandboxes goes through the selected boxes in the order of the
\* selection and reports one outcome for each (success, failure, missing
\* executable or exception); a box that fails does not stop the loop, every
\* later box is attempted; the count of the summary is the number of boxes
\* whose launch returned exit status 0.
C21_OneOutcomePerBox ==
    (sandbox.op = "launch" /\ ~sandbox.warned)
    => /\ sandbox.selected_boxes = SortedSeq(box_vars)
       /\ Len(sandbox.outcomes) = sandbox.i - 1
       /\ \A k \in 1..Len(sandbox.outcomes) :
             /\ sandbox.outcomes[k][1] = sandbox.selected_boxes[k]
             /\ sandbox.outcomes[k][2] \in {"success", "failed", "missing", "exception"}
             /\ sandbox.outcomes[k][2] = "success"
                   <=> sandbox.selected_boxes[k] \in LaunchedBoxes
             /\ sandbox.outcomes[k][2] # "missing"
                   => \E n \in 1..Len(sandbox.commands) :
                         sandbox.commands[n] = LaunchCommand(sandbox.selected_boxes[k])
       /\ sandbox.pc = "done"
             => /\ Len(sandbox.outcomes) = Len(sandbox.selected_boxes)
                /\ sandbox.summary = <<Cardinality(LaunchedBoxes), Len(sandbox.selected_boxes)>>

\* three boxes were launched: the first failed, the second is missing or
\* raised, the third was started and the summary counts one
C21_LaterBoxLaunchedAfterFailures ==
    /\ sandbox.op = "launch" /\ sandbox.pc = "done"
    /\ Len(sandbox.outcomes) = 3
    /\ sandbox.outcomes[1][2] = "failed"
    /\ sandbox.outcomes[2][2] = "missing"
    /\ sandbox.outcomes[3][2] = "success"
    /\ sandbox.summary = <<1, 3>>

\* C22: a call of the external tool that never returns is cut off: a launch
\* that has started reaches its summary and a terminate that has started
\* reports success or failure.
C22_HandlersEventuallyReport ==
    (sandbox.pc # "idle") ~> (sandbox.pc = "done")

\* C30: terminate_all_sandboxes issues one call of the external tool, the
\* bulk-terminate command without a box parameter, whatever boxes are
\* selected, and reports success iff that call returned exit status 0.
C30_OneBulkTerminate ==
    sandbox.op = "terminate"
    => /\ sandbox.commands = <<TerminateCommand>>
       /\ Len(sandbox.command) = 2
       /\ \A n \in 1..Len(sandbox.command) :
             /\ sandbox.command[n][1] # "/box:"
             /\ \A b \in Boxes : sandbox.command[n] # LaunchCommand(b)[2]
       /\ sandbox.pc = "done"
             => /\ sandbox.reported \in {"success", "failure"}
                /\ sandbox.reported = "success" <=> sandbox.returncodes = <<<<0, 0>>>>

\* the bulk terminate returned a non-zero status while boxes were selected
C30_TerminateFailedWithSelection ==
    /\ sandbox.op = "terminate" /\ sandbox.pc = "done"
    /\ box_vars # {}
    /\ sandbox.returncodes = <<<<0, 1>>>>
    /\ sandbox.reported = "failure"

\* C31: applying a layout changes the order of no window from top to bottom
\* and gives the focus to no window it moves, with the call of apply_layout
\* and with the call move_resize_window makes for the same windows.
C31_OrderAndFocusKept ==
    (last.op = "apply" /\ last.done)
    => LET before == [zorder |-> SortedSeq(live), activated |-> <<>>]
       IN  /\ last.zorder = before.zorder /\ last.activated = <<>>
           /\ DesktopAfter(before, last.moved, 1, 0, MoveResizeFlags) = before

\* C32: a click on an occupied cell of the grid, removal confirmed, empties
\* the clicked cell of the active group and no other cell, also in states
\* that load_config produced.
C32_GridClickEmptiesClickedCell ==
    [][(last'.op = "remove" /\ last'.source = "grid")
       => ActiveMapping' = {p \in ActiveMapping : p[1] # last'.cell}]_vars

\* C33: with both gaps 0 the two partitioners agree: for a region of width
\* and height >= 0, rows >= 1 and columns >= 1, rectangle i of
\* compute_grid_positions is the rectangle calculate_positions gives for the
\* cell in row i div columns and column i mod columns, for every i below
\* rows * columns.
C33_PartitionersAgree ==
    (geo.op = "calculate_positions" /\ GeomValid /\ geo.h_gap = 0 /\ geo.v_gap = 0)
    => LET cli == compute_grid_positions(geo.region[1], geo.region[2], geo.region[3],
                                         geo.region[4], geo.columns, geo.rows,
                                         geo.rows * geo.columns)
       IN  /\ geo.raised = "" /\ cli.raised = ""
           /\ Len(cli.rects) = geo.rows * geo.columns
           /\ \A i \in 0..(geo.rows * geo.columns - 1) :
                 cli.rects[i + 1]
                    = geo.positions[<<FloorDiv(i, geo.columns), Mod(i, geo.columns)>>]

\* calculate_positions ran without gaps on a region that does not start at
\* the origin and whose width leaves a remainder, for a grid of several rows
\* and columns
C33_OffsetRegionWithRemainder ==
    /\ geo.op = "calculate_positions" /\ GeomValid /\ geo.h_gap = 0 /\ geo.v_gap = 0
    /\ geo.rows >= 2 /\ geo.columns >= 2
    /\ geo.region[3] # 0 /\ geo.region[4] # 0
    /\ Mod(geo.region[1], geo.columns) # 0

\* C34: tile_windows with count >= 0, rows >= 1 and columns >= 1 moves the
\* first n = min(count, number of candidates, rows * columns) enumerated
\* windows, window i (from 0) to the cell in row i div columns and column
\* i mod columns, and no other window; with dry_run set it moves none.
C34_TilesFirstN ==
    (geo.op = "tile_windows" /\ geo.count >= 0 /\ geo.rows >= 1 /\ geo.columns >= 1)
    => LET n == CHOOSE k \in 0..geo.found :
                    /\ k <= geo.count /\ k <= geo.rows * geo.columns
                    /\ (k = geo.count \/ k = geo.found \/ k = geo.rows * geo.columns)
       IN  /\ geo.raised = ""
           /\ geo.dry_run => geo.moved = <<>>
           /\ ~geo.dry_run
                 => /\ Len(geo.moved) = n
                    /\ \A i \in 0..(n - 1) :
                          /\ geo.moved[i + 1][1] = i + 1
                          /\ geo.moved[i + 1][2]
                                = RuleRect(i \div geo.columns, i % geo.columns)

\* three candidates were found and the grid has two cells: two windows were
\* moved, the second to row 1
C34_GridSmallerThanCandidates ==
    /\ geo.op = "tile_windows" /\ ~geo.dry_run /\ geo.raised = ""
    /\ geo.found = 3 /\ geo.count > 3 /\ geo.rows = 2 /\ geo.columns = 1
    /\ Len(geo.moved) = 2
    /\ geo.moved[2][1] = 2

\* the mapping a grouped record gives group g with the window list as it is:
\* every entry that names a listed window sends its cell to the first such
\* window
RecordMapping(g) ==
    LET gs == config_file.group_assignments
        ks == {k \in 1..Len(gs) : gs[k][1] = g}
    IN  {<<ParsePos(gs[k][2][i][1]),
           heap[windows[FirstMatch(heap, windows, gs[k][2][i][2], 1)]].hwnd>> :
            <<k, i>> \in {p \in ks \X (1..MaxRows * MaxColumns) :
                             /\ p[2] <= Len(gs[p[1]][2])
                             /\ p[2] \in MatchedEntries(gs[p[1]][2])}}

\* C35: a second load_config directly after a first one, with the record and
\* the window list unchanged, leaves the mapping of every group and the rows
\* and columns as the first load left them; after the load of a grouped
\* record every group holds what the record and the window list give,
\* whatever was assigned before.
C35_LoadIdempotent ==
    [][(last'.op = "load" /\ last'.done)
       => /\ (last.op = "load" /\ last.done /\ last.candidates = last'.candidates)
                => /\ \A g \in Groups : Mapping(g)' = Mapping(g)
                   /\ rows' = rows /\ columns' = columns
          /\ last'.source = "grouped"
                => \A g \in Groups : Mapping(g)' = RecordMapping(g)]_vars

\* a grouped record was loaded twice in a row from the same window list and
\* bound a window
C35_GroupedLoadedTwice ==
    /\ last.op = "load" /\ last.done /\ last.after_load /\ last.source = "grouped"
    /\ last.candidates = [k \in 1..Len(windows) |-> heap[windows[k]].hwnd]
    /\ \E g \in Groups : Mapping(g) # {}

\* the width (k = 3) or height (k = 4) of a cell is what the gaps leave of it,
\* not the 0 it is clamped to
Unclamped(cell, k) ==
    LET inner_before == IF k = 3 THEN cell[2] > 0 ELSE cell[1] > 0
        inner_after  == IF k = 3 THEN cell[2] < geo.columns - 1 ELSE cell[1] < geo.rows - 1
        half         == (IF k = 3 THEN geo.h_gap ELSE geo.v_gap) \div 2
    IN  RawAt(cell[1], cell[2])[k]
            - ((IF inner_before THEN half ELSE 0) + (IF inner_after THEN half ELSE 0)) >= 0

\* C36: between two cells side by side whose widths are not clamped, the
\* space from the right edge of the left one to the left edge of the right
\* one is 2 * floor(h_gap / 2), which is h_gap when it is even, for positive
\* and negative gaps; likewise between two cells one above the other with
\* v_gap.
C36_SpaceBetweenCellsIsGap ==
    (geo.op = "calculate_positions" /\ GeomValid)
    => /\ \A r \in 0..(geo.rows - 1), c \in 0..(geo.columns - 2) :
             (Unclamped(<<r, c>>, 3) /\ Unclamped(<<r, c + 1>>, 3))
             => /\ geo.positions[<<r, c + 1>>][1]
                      - (geo.positions[<<r, c>>][1] + geo.positions[<<r, c>>][3])
                   = 2 * (geo.h_gap \div 2)
                /\ geo.h_gap % 2 = 0
                      => geo.positions[<<r, c + 1>>][1]
                            - (geo.positions[<<r, c>>][1] + geo.positions[<<r, c>>][3])
                         = geo.h_gap
       /\ \A r \in 0..(geo.rows - 2), c \in 0..(geo.columns - 1) :
             (Unclamped(<<r, c>>, 4) /\ Unclamped(<<r + 1, c>>, 4))
             => geo.positions[<<r + 1, c>>][2]
                   - (geo.positions[<<r, c>>][2] + geo.positions[<<r, c>>][4])
                = 2 * (geo.v_gap \div 2)

\* calculate_positions ran with an odd negative horizontal gap and an odd
\* positive vertical gap on a grid of two rows and three columns
C36_OddGapsBothWays ==
    /\ geo.op = "calculate_positions" /\ GeomValid /\ geo.raised = ""
    /\ geo.rows = 2 /\ geo.columns = 3
    /\ geo.h_gap = -1 /\ geo.v_gap = 1
    /\ \A c \in 0..2 : Unclamped(<<0, c>>, 3)
    /\ geo.positions[<<0, 1>>][1]
          - (geo.positions[<<0, 0>>][1] + geo.positions[<<0, 0>>][3]) = -2

\* C37: a batch button of a row of boxes (all / none / first five) changes
\* the check boxes of the six boxes of its row only (first five: the first
\* five set, the sixth cleared), makes the group of that row the active
\* layout group and changes the mapping of no group.
C37_BatchButtonTouchesOwnRow ==
    [][last'.op \in {"box_all", "box_none", "box_first5"}
       => /\ \E k \in 1..Len(layout_groups) :
                LET ids == (6 * (k - 1) + 1)..(6 * k)
                IN  /\ <<6 * (k - 1) + 1, 6 * k>> \in GroupRows
                    /\ layout_group_var' = layout_groups[k]
                    /\ box_vars' \ ids = box_vars \ ids
                    /\ last'.op = "box_all" => box_vars' \cap ids = ids
                    /\ last'.op = "box_none" => box_vars' \cap ids = {}
                    /\ last'.op = "box_first5"
                          => box_vars' \cap ids = (6 * (k - 1) + 1)..(6 * k - 1)
          /\ ~last'.raised
          /\ \A g \in Groups : Mapping(g)' = Mapping(g)]_vars

\* "first five" of the second row was pressed while boxes of the first row
\* were set and the first group held a window
C37_FirstFiveOfSecondRow ==
    /\ last.op = "box_first5"
    /\ layout_group_var = layout_groups[2]
    /\ box_vars = {1, 2} \cup (7..11)
    /\ Mapping(layout_groups[1]) # {}

\* C38: apply_layout, preview_layout and save_config change neither the
\* mapping of any group, nor the active group, nor the rows and columns,
\* whether they succeed, find nothing to do or fail.
C38_ReadOnlyHandlers ==
    [][last'.op \in {"apply", "preview", "save"}
       => /\ \A g \in Groups : Mapping(g)' = Mapping(g)
          /\ layout_group_var' = layout_group_var
          /\ rows' = rows /\ columns' = columns]_vars

\* apply_layout or preview_layout failed on a cell that is outside the grid
\* while the active group also held a window that is gone
C38_FailedWithStaleEntry ==
    /\ last.op \in {"apply", "preview"} /\ last.raised
    /\ ActiveMapping # {}
    /\ \E p \in ActiveMapping : p[2] \notin live

\* C39: in every reachable state every window object stored in the active
\* group's mapping at cell c carries c as its assigned_position.
C39_MarkerAgreesWithMap ==
    \A i \in 1..Len(get_current_assignments) :
        heap[get_current_assignments[i][2]].assigned_position
            = get_current_assignments[i][1]
====
